---- MODULE Spec2Model ----
(***************************************************************************)
(* Model of the OAuth 2.1 authorization/token subsystem of mcp-pa          *)
(* (src/src/auth): the client registry, the client authenticator, the      *)
(* token manager and the orchestrating provider.                           *)
(*                                                                         *)
(* Spec   : the handlers run one at a time (each handler is one action).   *)
(* SpecX  : the authorization-code flow alone, with both PKCE methods.     *)
(* SpecT  : the token manager with any configured default expiry.          *)
(* SpecR  : revocation, with the history of the revoked tokens.            *)
(* SpecI  : introspection of issued, forged, expired and revoked tokens.   *)
(* SpecP  : the PKCE functions on their own.                               *)
(* SpecB  : the code flow with given, empty and absent resource indicators. *)
(* SpecA  : client authentication over several registries and credentials. *)
(* SpecG  : the dynamic client registry.                                   *)
(* SpecV  : TokenManager.revoke_token called on its own.                   *)
(* SpecF  : token requests for a code that fail in every tested way.       *)
(* SpecM  : two confidential clients at the token endpoint.                 *)
(* SpecL  : the code flow and the sweep under weak fairness.                *)
(* SpecC  : two token requests run as threads whose statements interleave. *)
(***************************************************************************)
EXTENDS Integers, FiniteSets, Sequences, TLC

VARIABLES
    now,                  \* datetime.now(timezone.utc), in seconds
    default_token_expiry, \* TokenManager.default_token_expiry
    client_registry,      \* OAuth21Provider.client_registry : client_id -> config
    authorization_codes,  \* OAuth21Provider.authorization_codes : code -> record
    active_tokens,        \* TokenManager.active_tokens : jti -> TokenContext
    refresh_tokens,       \* TokenManager.refresh_tokens : token -> record
    rt_used,              \* the refresh records whose "used" flag is set; a record is an
                          \* object that a running call still holds after it left the index
    jwts,                 \* every access token (signed JWT) handed out so far
    next_jti,             \* secrets.token_urlsafe: the next fresh jti
    next_rt,              \* secrets.token_urlsafe: the next fresh refresh token
    code_grants,          \* history: code -> set of <<jti, refresh token>> returned for it
    rotations,            \* history: refresh token -> set of <<jti, refresh token>> returned for it
    revoked,              \* history: the tokens TokenManager.revoke_token returned True for
    dcr,                  \* DynamicClientRegistry: registered_clients, registration_tokens
    deleted,              \* history: <<client id, registration token>> of each delete_client
                          \* that returned True
    last,                 \* the last call and its outcome
    th                    \* SpecC: the frame of each running token request

vars == <<now, default_token_expiry, client_registry, authorization_codes,
          active_tokens, refresh_tokens, rt_used, jwts, next_jti, next_rt,
          code_grants, rotations, revoked, dcr, deleted, last, th>>

----------------------------------------------------------------------------
(* Bounds of the model *)

MaxCodes == 1
MaxTokens == 3
MaxClients == 2

(* Program constants *)

MaxAccessTokenExpiry == 3600
DefaultTokenExpiry == 3600
CodeLifetime == 600
MinVerifierLength == 43
MaxVerifierLength == 128
RefreshTokenExpiry == 7200
ClientSecretExpiry == 7776000
RegistrationTokenExpiry == 86400

None == "None"
Issuer == "https://as.example"

RedirectUris == {"https://app.example/cb", "https://other.example/cb"}
Verifiers == {"v1", "v2"}
Resources == {"https://a", "https://b"}
Scopes == {"read"}
ConfiguredExpiries == {1800, 3600, 7200}
RequestedExpiries == {1800, 7200}
TimePoints == {600, 7200}

SecretMethods == {"client_secret_basic", "client_secret_post"}
RegistrableMethods == {"client_secret_basic", "client_secret_post",
                       "private_key_jwt", "tls_client_auth", "none"}

Min(a, b) == IF a <= b THEN a ELSE b

Remove(f, k) == [x \in DOMAIN f \ {k} |-> f[x]]

Put(f, k, v) == [x \in DOMAIN f \cup {k} |-> IF x = k THEN v ELSE f[x]]

\* What stands for a response when the call raised instead of returning one.
NoResponse == [raised |-> TRUE]

\* History h with pair added to what was returned for key k.
Returned(h, k, pair) == Put(h, k, (IF k \in DOMAIN h THEN h[k] ELSE {}) \cup {pair})

----------------------------------------------------------------------------
(* PKCE *)

\* The verifiers of the model by name, with the length and the alphabet the code looks
\* at: v1 and v2 are well formed (43 and 128 characters of the unreserved set); the
\* others are empty, one character too short, one too long, and of a good length with
\* a character outside the unreserved set.
VerifierLength(v) ==
    IF v = "v1" THEN 43 ELSE IF v = "v2" THEN 128 ELSE IF v = "" THEN 0
    ELSE IF v = "short" THEN 42 ELSE IF v = "long" THEN 129 ELSE 64

VerifierCharsValid(v) == v # "bad chars"

MalformedVerifiers == {"", "short", "long", "bad chars"}

\* _validate_code_verifier: "ok", or the PKCEError it raises.
validate_code_verifier(code_verifier) ==
    IF code_verifier = "" THEN "PKCEError"
    ELSE IF ~(MinVerifierLength <= VerifierLength(code_verifier)
              /\ VerifierLength(code_verifier) <= MaxVerifierLength) THEN "PKCEError"
    ELSE IF ~VerifierCharsValid(code_verifier) THEN "PKCEError"
    ELSE "ok"

\* base64url(sha256(v)) without padding: a digest that differs for different verifiers.
S256(v) == "sha256(" \o v \o ")"

\* The challenge, or "PKCEError" when generate_code_challenge raises.
generate_code_challenge(code_verifier, method) ==
    IF validate_code_verifier(code_verifier) # "ok" THEN "PKCEError"
    ELSE IF method = "S256" THEN S256(code_verifier)
    ELSE IF method = "plain" THEN code_verifier
    ELSE "PKCEError"

\* verify_code_challenge that compares a prefix of the challenge only.
verify_code_challenge_prefix(code_verifier, code_challenge, method) ==
    IF validate_code_verifier(code_verifier) # "ok" THEN "False"
    ELSE IF code_challenge = "" THEN "False"
    ELSE IF generate_code_challenge(code_verifier, method) = "PKCEError" THEN "False"
    ELSE IF code_challenge \in {generate_code_challenge(code_verifier, method),
                                generate_code_challenge(code_verifier, method) \o "x"}
         THEN "True"
    ELSE "False"

\* What a call of verify_code_challenge ends in: "True" or "False"; every exception
\* raised inside it, the PKCEError of a malformed verifier included, is caught and
\* turned into False.
verify_code_challenge_outcome(code_verifier, code_challenge, method) ==
    IF validate_code_verifier(code_verifier) # "ok" THEN "False"
    ELSE IF code_challenge = "" THEN "False"
    ELSE IF generate_code_challenge(code_verifier, method) = "PKCEError" THEN "False"
    ELSE IF generate_code_challenge(code_verifier, method) = code_challenge THEN "True"
    ELSE "False"

verify_code_challenge(code_verifier, code_challenge, method) ==
    verify_code_challenge_outcome(code_verifier, code_challenge, method) = "True"

----------------------------------------------------------------------------
(* Client registry and client authentication *)

\* The record of a call: what was called, how it ended, and what it handed out.
\* client: the client the call authenticated (0: none); code, jti, rt: the code presented
\* and the tokens handed out; arg: the token presented; res: the resource a validation
\* was asked for; description: the text of the ClientAuthenticationError that an
\* invalid_client error passes on; auth: the credentials a token request presented.
CallBy(client, op, result, code, jti, rt, arg, res) ==
    [op |-> op, result |-> result, client |-> client, code |-> code, jti |-> jti,
     rt |-> rt, arg |-> arg, res |-> res, redirect_uri |-> "", code_verifier |-> "",
     description |-> "", auth |-> None]

\* The record of an exchange_code call, with the redirect URI and the verifier presented.
ExchangeCall(client, result, code, jti, rt, redirect_uri, code_verifier) ==
    [CallBy(client, "exchange", result, code, jti, rt, 0, None)
        EXCEPT !.redirect_uri = redirect_uri, !.code_verifier = code_verifier]

\* The record of an introspection call: arg is the token presented, response the
\* dictionary returned.
IntrospectCall(client, token, result, response) ==
    [response |-> response] @@ CallBy(client, "introspect", result, 0, 0, 0, token, None)

CallR(op, result, code, jti, rt, arg, res) == CallBy(0, op, result, code, jti, rt, arg, res)

Call(op, result, code, jti, rt, arg) == CallBy(0, op, result, code, jti, rt, arg, None)

\* urllib.parse.urlparse on the URIs of the model: scheme, netloc and hostname (the
\* netloc without the port, in lower case). A string without "//" has neither scheme
\* nor netloc.
urlparse(uri) ==
    CASE uri = "https://app.example/cb" ->
            [scheme |-> "https", netloc |-> "app.example", hostname |-> "app.example"]
      [] uri = "https://other.example/cb" ->
            [scheme |-> "https", netloc |-> "other.example", hostname |-> "other.example"]
      [] uri = "http://localhost/cb" ->
            [scheme |-> "http", netloc |-> "localhost", hostname |-> "localhost"]
      [] uri = "http://127.0.0.1:8080/cb" ->
            [scheme |-> "http", netloc |-> "127.0.0.1:8080", hostname |-> "127.0.0.1"]
      [] uri = "http://app.example/cb" ->
            [scheme |-> "http", netloc |-> "app.example", hostname |-> "app.example"]
      [] uri = "http://localhost.evil.example/cb" ->
            [scheme |-> "http", netloc |-> "localhost.evil.example",
             hostname |-> "localhost.evil.example"]
      [] OTHER -> [scheme |-> "", netloc |-> "", hostname |-> None]

\* parsed.scheme != "https" and parsed.hostname not in ["localhost", "127.0.0.1"]
\* is what the validation refuses.
HttpsOrLoopback(uri) ==
    urlparse(uri).scheme = "https" \/ urlparse(uri).hostname \in {"localhost", "127.0.0.1"}

\* A registration or update request. An absent key is None for the method and the empty
\* set for the lists (an empty list is not among the requests of the model).
Request(redirect_uris, method, grant_types) ==
    [redirect_uris |-> redirect_uris, token_endpoint_auth_method |-> method,
     grant_types |-> grant_types]

\* data.get(key, default)
GetOr(value, default) == IF value = None THEN default ELSE value

\* data.get(key, default) for a list
GetListOr(value, default) == IF value = {} THEN default ELSE value

\* The redirect URIs of the request are a non-empty list.
HasRedirectUris(data) == data.redirect_uris # {}

\* _validate_registration_request for an update without the scheme and host test.
registration_request_error_update_unchecked(data, is_update) ==
    IF ~is_update /\ ~HasRedirectUris(data) THEN "invalid_redirect_uri"
    ELSE IF /\ HasRedirectUris(data)
            /\ \E u \in data.redirect_uris :
                  \/ urlparse(u).scheme = "" \/ urlparse(u).netloc = ""
                  \/ ~is_update /\ ~HttpsOrLoopback(u)
         THEN "invalid_redirect_uri"
    ELSE IF ~(GetListOr(data.grant_types, {"authorization_code"})
                 \subseteq {"authorization_code", "refresh_token"})
         THEN "invalid_client_metadata"
    ELSE IF GetOr(data.token_endpoint_auth_method, "client_secret_basic")
                 \notin RegistrableMethods
         THEN "invalid_client_metadata"
    ELSE "ok"

\* The error of the ClientRegistrationError that _validate_registration_request(data,
\* is_update) raises, or "ok".
registration_request_error(data, is_update) ==
    IF ~is_update /\ ~HasRedirectUris(data) THEN "invalid_redirect_uri"
    ELSE IF /\ HasRedirectUris(data)
            /\ \E u \in data.redirect_uris :
                  \/ urlparse(u).scheme = "" \/ urlparse(u).netloc = ""
                  \/ ~HttpsOrLoopback(u)
         THEN "invalid_redirect_uri"
    ELSE IF ~(GetListOr(data.grant_types, {"authorization_code"})
                 \subseteq {"authorization_code", "refresh_token"})
         THEN "invalid_client_metadata"
    ELSE IF GetOr(data.token_endpoint_auth_method, "client_secret_basic")
                 \notin RegistrableMethods
         THEN "invalid_client_metadata"
    ELSE "ok"

validate_registration_request(redirect_uris, method) ==
    registration_request_error(Request(redirect_uris, method, {}), FALSE)

\* The registry after register_client(request) on registry reg; a refused request
\* leaves it as it was.
register_client(reg, redirect_uris, method) ==
    LET client_id == Cardinality(DOMAIN reg) + 1
        secret == IF method \in SecretMethods THEN client_id ELSE 0
    IN IF validate_registration_request(redirect_uris, method) # "ok" THEN reg
       ELSE Put(reg, client_id,
                [client_secret |-> secret,
                 redirect_uris |-> redirect_uris,
                 token_endpoint_auth_method |-> method,
                 public_key |-> None])

\* The clients of the model: a confidential client (1) and a public client (2).
RegisteredClients ==
    register_client(register_client(<<>>, {"https://app.example/cb"}, "client_secret_basic"),
                    {"https://app.example/cb"}, "none")

\* DynamicClientRegistry.__init__: no client, no registration token. next_id and
\* next_token stand for uuid4 and secrets.token_urlsafe: the next fresh client id and
\* the next fresh registration token.
DynamicClientRegistryInit ==
    [registered_clients |-> <<>>, registration_tokens |-> <<>>, next_id |-> 1, next_token |-> 1]

\* The record of a call on the registry: the client id addressed (or issued), the
\* registration token presented (or issued), the request data, the error or "ok",
\* and the payload returned.
RegistryCall(op, client_id, token, data, result, response) ==
    [op |-> op, client_id |-> client_id, token |-> token, data |-> data,
     result |-> result, response |-> response]

\* A register_client that issues a secret whatever the method.
NeedsSecret_always(auth_method) == TRUE

\* auth_method in ["client_secret_basic", "client_secret_post"]
NeedsSecret(auth_method) == auth_method \in SecretMethods

\* The ClientRegistration that register_client stores; the secret, a fresh random
\* string, is written as the client id it is issued to, 0 for none.
ClientRegistrationOf(client_id, data, token) ==
    LET auth_method == GetOr(data.token_endpoint_auth_method, "client_secret_basic")
    IN [client_id |-> client_id,
        client_secret |-> IF NeedsSecret(auth_method) THEN client_id ELSE 0,
        client_secret_expires_at |->
            IF NeedsSecret(auth_method) THEN now + ClientSecretExpiry ELSE 0,
        redirect_uris |-> data.redirect_uris,
        grant_types |-> GetListOr(data.grant_types, {"authorization_code"}),
        token_endpoint_auth_method |-> auth_method,
        registration_access_token |-> token]

\* _build_registration_response: the secret and its expiry are in the payload when the
\* registration has a secret.
build_registration_response(registration) ==
    LET base == [client_id |-> registration.client_id,
                 redirect_uris |-> registration.redirect_uris,
                 grant_types |-> registration.grant_types,
                 token_endpoint_auth_method |-> registration.token_endpoint_auth_method,
                 registration_access_token |-> registration.registration_access_token]
    IN IF registration.client_secret # 0
       THEN base @@ [client_secret |-> registration.client_secret,
                     client_secret_expires_at |-> registration.client_secret_expires_at]
       ELSE base

\* DynamicClientRegistry.register_client(request_data)
register_client_request(data) ==
    LET err == registration_request_error(data, FALSE)
        registration == ClientRegistrationOf(dcr.next_id, data, dcr.next_token)
    IN /\ IF err # "ok"
          THEN /\ last' = RegistryCall("register", 0, 0, data, err, NoResponse)
               /\ UNCHANGED dcr
          ELSE /\ dcr.next_id <= MaxClients
               /\ dcr' = [registered_clients |->
                              Put(dcr.registered_clients, dcr.next_id, registration),
                          registration_tokens |->
                              Put(dcr.registration_tokens, dcr.next_token,
                                  [client_id |-> dcr.next_id,
                                   expires_at |-> now + RegistrationTokenExpiry]),
                          next_id |-> dcr.next_id + 1,
                          next_token |-> dcr.next_token + 1]
               /\ last' = RegistryCall("register", dcr.next_id, dcr.next_token, data, "ok",
                                       build_registration_response(registration))
       /\ UNCHANGED <<now, default_token_expiry, revoked, deleted, client_registry, authorization_codes,
                      active_tokens, refresh_tokens, rt_used, jwts, next_jti, next_rt,
                      code_grants, rotations, th>>

\* get_client(client_id): the registration, or None
get_client(client_id) ==
    /\ last' = RegistryCall("get", client_id, 0, Request({}, None, {}),
                            IF client_id \in DOMAIN dcr.registered_clients
                            THEN "found" ELSE "not_found",
                            IF client_id \in DOMAIN dcr.registered_clients
                            THEN dcr.registered_clients[client_id] ELSE NoResponse)
    /\ UNCHANGED <<now, default_token_expiry, revoked, dcr, deleted, client_registry,
                   authorization_codes, active_tokens, refresh_tokens, rt_used, jwts,
                   next_jti, next_rt, code_grants, rotations, th>>

\* _validate_registration_token without the comparison of the client id.
validate_registration_token_any_client(token, client_id) ==
    /\ token \in DOMAIN dcr.registration_tokens
    /\ ~(now > dcr.registration_tokens[token].expires_at)

\* _validate_registration_token(token, client_id): its return value
validate_registration_token(token, client_id) ==
    /\ token \in DOMAIN dcr.registration_tokens
    /\ dcr.registration_tokens[token].client_id = client_id
    /\ ~(now > dcr.registration_tokens[token].expires_at)

\* registration_tokens after _validate_registration_token(token, client_id): a token
\* of the client that it finds expired is deleted.
TokensAfterValidation(token, client_id) ==
    IF /\ token \in DOMAIN dcr.registration_tokens
       /\ dcr.registration_tokens[token].client_id = client_id
       /\ now > dcr.registration_tokens[token].expires_at
    THEN Remove(dcr.registration_tokens, token)
    ELSE dcr.registration_tokens

\* The registration with the validated fields of an update set: the redirect URIs when
\* the request has some, the grant types and the method as sent or their defaults.
UpdatedRegistration(registration, data) ==
    [registration EXCEPT
        !.redirect_uris = IF HasRedirectUris(data) THEN data.redirect_uris ELSE @,
        !.grant_types = GetListOr(data.grant_types, {"authorization_code"}),
        !.token_endpoint_auth_method =
            GetOr(data.token_endpoint_auth_method, "client_secret_basic")]

\* DynamicClientRegistry.update_client(client_id, registration_token, update_data)
update_client(client_id, token, data) ==
    LET err == registration_request_error(data, TRUE)
    IN /\ IF ~validate_registration_token(token, client_id)
          THEN /\ last' = RegistryCall("update", client_id, token, data, "invalid_token",
                                       NoResponse)
               /\ dcr' = [dcr EXCEPT
                              !.registration_tokens = TokensAfterValidation(token, client_id)]
          ELSE IF client_id \notin DOMAIN dcr.registered_clients
          THEN /\ last' = RegistryCall("update", client_id, token, data,
                                       "invalid_client_id", NoResponse)
               /\ UNCHANGED dcr
          ELSE IF err # "ok"
          THEN /\ last' = RegistryCall("update", client_id, token, data, err, NoResponse)
               /\ UNCHANGED dcr
          ELSE LET updated == UpdatedRegistration(dcr.registered_clients[client_id], data)
               IN /\ dcr' = [dcr EXCEPT !.registered_clients[client_id] = updated]
                  /\ last' = RegistryCall("update", client_id, token, data, "ok",
                                          build_registration_response(updated))
       /\ UNCHANGED <<now, default_token_expiry, revoked, deleted, client_registry, authorization_codes,
                      active_tokens, refresh_tokens, rt_used, jwts, next_jti, next_rt,
                      code_grants, rotations, th>>

\* delete_client that removes the client and leaves its registration tokens.
delete_client_keep_tokens(client_id, token) ==
    /\ IF ~validate_registration_token(token, client_id)
       THEN /\ last' = RegistryCall("delete", client_id, token, Request({}, None, {}),
                                    "invalid_token", NoResponse)
            /\ dcr' = [dcr EXCEPT
                           !.registration_tokens = TokensAfterValidation(token, client_id)]
       ELSE /\ last' = RegistryCall("delete", client_id, token, Request({}, None, {}),
                                    "ok", NoResponse)
            /\ dcr' = [dcr EXCEPT
                           !.registered_clients = Remove(dcr.registered_clients, client_id)]
    /\ UNCHANGED <<now, default_token_expiry, revoked, client_registry, authorization_codes,
                   active_tokens, refresh_tokens, rt_used, jwts, next_jti, next_rt,
                   code_grants, rotations, th>>

\* DynamicClientRegistry.delete_client(client_id, registration_token)
delete_client(client_id, token) ==
    /\ IF ~validate_registration_token(token, client_id)
       THEN /\ last' = RegistryCall("delete", client_id, token, Request({}, None, {}),
                                    "invalid_token", NoResponse)
            /\ dcr' = [dcr EXCEPT
                           !.registration_tokens = TokensAfterValidation(token, client_id)]
       ELSE /\ last' = RegistryCall("delete", client_id, token, Request({}, None, {}),
                                    "ok", NoResponse)
            /\ dcr' = [dcr EXCEPT
                           !.registered_clients = Remove(dcr.registered_clients, client_id),
                           !.registration_tokens =
                               [t \in {x \in DOMAIN dcr.registration_tokens :
                                          dcr.registration_tokens[x].client_id # client_id}
                                  |-> dcr.registration_tokens[t]]]
    /\ UNCHANGED <<now, default_token_expiry, revoked, client_registry, authorization_codes,
                   active_tokens, refresh_tokens, rt_used, jwts, next_jti, next_rt,
                   code_grants, rotations, th>>

\* A client_auth value: the method and the credentials presented.
\* secret 0 stands for "no secret presented".
ClientAuth(method, client_id, client_secret) ==
    [method |-> method, client_id |-> client_id, client_secret |-> client_secret]

\* The credentials presented in the model: the confidential client with its secret
\* and with a wrong one, and the public client with its declared method.
ClientAuths ==
    {ClientAuth("client_secret_basic", 1, 1), ClientAuth("client_secret_basic", 1, 2),
     ClientAuth("none", 2, 0)}

\* The credentials of the confidential client alone, right and wrong.
ThreadAuths == {ClientAuth("client_secret_basic", 1, 1), ClientAuth("client_secret_basic", 1, 2)}

\* authenticate_secret that accepts any presented secret of a registered client.
authenticate_secret_no_compare(auth) ==
    IF auth.client_secret = 0 THEN 0
    ELSE IF auth.client_id \notin DOMAIN client_registry THEN 0
    ELSE IF client_registry[auth.client_id].client_secret = 0 THEN 0
    ELSE auth.client_id

authenticate_secret(auth) ==
    IF auth.client_secret = 0 THEN 0
    ELSE IF auth.client_id \notin DOMAIN client_registry THEN 0
    ELSE IF client_registry[auth.client_id].client_secret = 0 THEN 0
    ELSE IF auth.client_secret # client_registry[auth.client_id].client_secret THEN 0
    ELSE auth.client_id

authenticate_private_key_jwt(auth) ==
    IF auth.client_id \notin DOMAIN client_registry THEN 0
    ELSE IF client_registry[auth.client_id].public_key = None THEN 0
    ELSE auth.client_id

authenticate_tls_client_auth(auth) == 0

\* The authenticated client id, or 0 for ClientAuthenticationError.
authenticate_client(auth) ==
    IF auth.method \in SecretMethods THEN authenticate_secret(auth)
    ELSE IF auth.method = "private_key_jwt" THEN authenticate_private_key_jwt(auth)
    ELSE IF auth.method = "tls_client_auth" THEN authenticate_tls_client_auth(auth)
    ELSE 0

\* The message of the ClientAuthenticationError that _authenticate_client_secret_basic
\* or _authenticate_client_secret_post raises; "" when the handler returns a context.
authenticate_secret_failure(auth) ==
    IF auth.client_secret = 0
    THEN IF auth.method = "client_secret_basic" THEN "Missing or invalid Basic auth header"
         ELSE "Missing client_id or client_secret"
    ELSE IF auth.client_id \notin DOMAIN client_registry
         THEN "Unknown client: " \o ToString(auth.client_id)
    ELSE IF client_registry[auth.client_id].client_secret = 0
         THEN "Client not configured for secret authentication"
    ELSE IF auth.client_secret # client_registry[auth.client_id].client_secret
         THEN "Invalid client credentials"
    ELSE ""

\* str(e) of the ClientAuthenticationError that authenticate_client raises: the
\* handler's exception is caught and raised again with its message after a prefix.
authenticate_client_failure(auth) ==
    IF auth.method \in SecretMethods
    THEN IF authenticate_secret_failure(auth) = "" THEN ""
         ELSE "Authentication failed: " \o authenticate_secret_failure(auth)
    ELSE IF auth.method = "private_key_jwt"
    THEN IF auth.client_id \notin DOMAIN client_registry
         THEN "Authentication failed: Unknown client: " \o ToString(auth.client_id)
         ELSE IF client_registry[auth.client_id].public_key = None
         THEN "Authentication failed: No public key configured for client"
         ELSE ""
    ELSE IF auth.method = "tls_client_auth"
    THEN "Authentication failed: Missing client certificate"
    ELSE "Unsupported authentication method: " \o auth.method

\* The record of an authenticate_client call: the credentials presented, the client of
\* the ClientContext returned (0: none) and the message of the error raised.
AuthCall(auth, client, description) ==
    [op |-> "authenticate", auth |-> auth, client |-> client,
     result |-> IF client # 0 THEN "ok" ELSE "ClientAuthenticationError",
     description |-> description]

\* ClientAuthenticator.authenticate_client(auth_method, credentials) called on its own.
authenticate(auth) ==
    /\ last' = AuthCall(auth, authenticate_client(auth), authenticate_client_failure(auth))
    /\ UNCHANGED <<now, default_token_expiry, revoked, dcr, deleted, client_registry, authorization_codes,
                   active_tokens, refresh_tokens, rt_used, jwts, next_jti, next_rt,
                   code_grants, rotations, th>>

----------------------------------------------------------------------------
(* Token manager *)

\* user_id = f"user_{client_id}"
UserOf(client_id) == client_id

\* TokenManager.__init__: self.default_token_expiry = min(default_token_expiry, 3600)
TokenManagerInit(configured) == Min(configured, MaxAccessTokenExpiry)

\* ClampExpiry without the cap of one hour.
ClampExpiry_uncapped(has_ttl, ttl) ==
    IF has_ttl THEN ttl ELSE default_token_expiry

\* expires_in of create_access_token: the requested one, else the default; one hour
\* at most.
ClampExpiry(has_ttl, ttl) ==
    Min(IF has_ttl THEN ttl ELSE default_token_expiry, MaxAccessTokenExpiry)

\* Python's truth value of an optional string: None and the empty string are false.
Truthy(x) == x \notin {None, ""}

\* The payload create_access_token signs: aud is "resource or self.issuer", and the
\* resource claim is added only "if resource".
JwtOf(jti, client_id, user_id, scope, resource, expires_in) ==
    [sig |-> "valid", iss |-> Issuer, sub |-> user_id,
     aud |-> IF Truthy(resource) THEN resource ELSE Issuer,
     client_id |-> client_id, exp |-> now + expires_in, iat |-> now, jti |-> jti,
     token_type |-> "access_token", scope |-> scope,
     resource |-> IF Truthy(resource) THEN resource ELSE None]

TokenContextOf(jti, client_id, user_id, scope, resource, expires_in) ==
    [jti |-> jti, expires_in |-> expires_in, scope |-> scope, resource |-> resource,
     client_id |-> client_id, user_id |-> user_id, issued_at |-> now]

RefreshRecordOf(client_id, user_id, access_token_jti) ==
    [client_id |-> client_id, user_id |-> user_id, access_token_jti |-> access_token_jti,
     expires_at |-> now + RefreshTokenExpiry]

\* A token that is not a JWT this server signed.
Garbage ==
    [sig |-> "invalid", iss |-> Issuer, sub |-> 0, aud |-> Issuer, client_id |-> 0,
     exp |-> 0, iat |-> 0, jti |-> 0, token_type |-> "access_token",
     scope |-> None, resource |-> None]

\* jwt_decode with the audience claim left unverified.
jwt_decode_no_aud(token) ==
    IF token.sig # "valid" THEN "InvalidSignatureError"
    ELSE IF token.exp <= now THEN "ExpiredSignatureError"
    ELSE IF token.iat > now THEN "ImmatureSignatureError"
    ELSE "ok"

\* jwt.decode(token, secret_key, algorithms=["HS256"], options={require, verify_exp,
\* verify_iat}) as called by validate_access_token: no audience argument is passed,
\* and PyJWT then rejects every token that carries a non-empty aud claim.
jwt_decode(token) ==
    IF token.sig # "valid" THEN "InvalidSignatureError"
    ELSE IF token.exp <= now THEN "ExpiredSignatureError"
    ELSE IF token.iat > now THEN "ImmatureSignatureError"
    ELSE IF token.aud # "" THEN "InvalidAudienceError"
    ELSE "ok"

\* The resource-indicator test of validate_access_token ("if resource:"): the token's
\* resource claim and its aud claim, when present, must equal the resource asked for.
resource_indicator_check(token, resource) ==
    IF resource # None /\ token.resource # None /\ token.resource # resource
    THEN "Token not valid for requested resource"
    ELSE IF resource # None /\ token.aud # "" /\ token.aud # resource
    THEN "Token audience mismatch"
    ELSE "ok"

\* The outcome of validate_access_token: "ok" or the reason of the TokenError.
validate_access_token(token, resource) ==
    IF jwt_decode(token) # "ok" THEN jwt_decode(token)
    ELSE IF token.iss # Issuer THEN "Invalid token issuer"
    ELSE IF token.token_type # "access_token" THEN "Invalid token type"
    ELSE IF resource_indicator_check(token, resource) # "ok"
         THEN resource_indicator_check(token, resource)
    ELSE IF token.jti \notin DOMAIN active_tokens THEN "Token not found or revoked"
    ELSE IF now >= active_tokens[token.jti].issued_at + active_tokens[token.jti].expires_in
         THEN "Token has expired"
    ELSE "ok"

revoke_all_client_tokens(tokens, client_id, user_id) ==
    [k \in {x \in DOMAIN tokens :
               ~(tokens[x].client_id = client_id /\ tokens[x].user_id = user_id)}
       |-> tokens[k]]

\* TokenManager.create_access_token called on its own, with an optional ttl.
create_access_token(client_id, scope, resource, has_ttl, ttl) ==
    /\ next_jti <= MaxTokens
    /\ LET expires_in == ClampExpiry(has_ttl, ttl)
           user_id == UserOf(client_id)
       IN /\ active_tokens' = Put(active_tokens, next_jti,
                 TokenContextOf(next_jti, client_id, user_id, scope, resource, expires_in))
          /\ jwts' = jwts \cup {JwtOf(next_jti, client_id, user_id, scope, resource, expires_in)}
          /\ last' = Call("create_access_token", "ok", 0, next_jti, 0,
                          IF has_ttl THEN ttl ELSE 0)
    /\ next_jti' = next_jti + 1
    /\ UNCHANGED <<now, default_token_expiry, revoked, dcr, deleted, client_registry, authorization_codes,
                   refresh_tokens, rt_used, next_rt, code_grants, rotations, th>>

\* The TokenError of refresh_access_token, or "ok".
refresh_check(refresh_token) ==
    IF refresh_token \notin DOMAIN refresh_tokens THEN "Invalid refresh token"
    ELSE IF refresh_token \in rt_used THEN "Refresh token already used"
    ELSE IF now >= refresh_tokens[refresh_token].expires_at THEN "Refresh token has expired"
    ELSE "ok"

\* TokenManager.revoke_token: an access token (by the jti of its unverified payload),
\* else a refresh token string.
revoke_token_access(token) ==
    /\ token.jti # 0
    /\ token.jti \in DOMAIN active_tokens

\* An introspection that trusts every token with a valid signature and reports its claims.
introspect_token_response_unchecked(token) ==
    IF token.sig # "valid" THEN [active |-> FALSE]
    ELSE [active |-> TRUE, client_id |-> token.client_id, username |-> token.sub,
          scope |-> token.scope, resource |-> token.resource, exp |-> token.exp,
          iat |-> token.iat, iss |-> token.iss, sub |-> token.sub, aud |-> token.aud,
          token_type |-> "access_token"]

\* The dictionary TokenManager.introspect_token returns: validate_access_token first,
\* {"active": False} on its TokenError; then a second jwt.decode (again without an
\* audience), whose error is not a TokenError and is not caught.
introspect_token_response(token) ==
    IF validate_access_token(token, None) # "ok" THEN [active |-> FALSE]
    ELSE IF jwt_decode(token) # "ok" THEN NoResponse
    ELSE [active |-> TRUE, client_id |-> active_tokens[token.jti].client_id,
          username |-> active_tokens[token.jti].user_id,
          scope |-> active_tokens[token.jti].scope,
          resource |-> active_tokens[token.jti].resource, exp |-> token.exp,
          iat |-> token.iat, iss |-> token.iss, sub |-> token.sub, aud |-> token.aud,
          token_type |-> "access_token"]

\* A jti that is a JSON array or object in the unverified payload: a value that cannot
\* be a dictionary key. Issued jtis are positive, 0 is no jti.
UnhashableJti == -1

\* A string with the three segments of a JWT, made by anyone, whose payload carries
\* such a jti; its signature verifies against nothing.
CraftedToken == [Garbage EXCEPT !.jti = UnhashableJti]

\* TokenManager.revoke_token that removes, with an access token, the refresh token
\* issued alongside it.
token_manager_revoke_token_cascade(is_jwt, token, refresh_token) ==
    LET jti == IF is_jwt THEN token.jti ELSE 0
        rt == IF is_jwt THEN 0 ELSE refresh_token
    IN /\ IF is_jwt /\ token.jti = UnhashableJti
          THEN /\ last' = Call("tm_revoke", "TypeError", 0, jti, rt, 0)
               /\ UNCHANGED <<active_tokens, refresh_tokens>>
          ELSE IF is_jwt /\ revoke_token_access(token)
          THEN /\ active_tokens' = Remove(active_tokens, token.jti)
               /\ refresh_tokens' =
                     [r \in {x \in DOMAIN refresh_tokens :
                                refresh_tokens[x].access_token_jti # token.jti}
                        |-> refresh_tokens[r]]
               /\ last' = Call("tm_revoke", "true", 0, jti, rt, 0)
          ELSE IF ~is_jwt /\ refresh_token \in DOMAIN refresh_tokens
          THEN /\ refresh_tokens' = Remove(refresh_tokens, refresh_token)
               /\ UNCHANGED active_tokens
               /\ last' = Call("tm_revoke", "true", 0, jti, rt, 0)
          ELSE /\ UNCHANGED <<active_tokens, refresh_tokens>>
               /\ last' = Call("tm_revoke", "false", 0, jti, rt, 0)
       /\ UNCHANGED <<now, default_token_expiry, revoked, dcr, deleted, client_registry,
                      authorization_codes, rt_used, jwts, next_jti, next_rt, code_grants,
                      rotations, th>>

\* TokenManager.revoke_token(token) called on its own, with a string that decodes as a
\* JWT (is_jwt; the signature is not verified) or with any other string. The test
\* "jti in self.active_tokens" hashes the jti and raises TypeError when it cannot.
token_manager_revoke_token(is_jwt, token, refresh_token) ==
    LET jti == IF is_jwt THEN token.jti ELSE 0
        rt == IF is_jwt THEN 0 ELSE refresh_token
    IN /\ IF is_jwt /\ token.jti = UnhashableJti
          THEN /\ last' = Call("tm_revoke", "TypeError", 0, jti, rt, 0)
               /\ UNCHANGED <<active_tokens, refresh_tokens>>
          ELSE IF is_jwt /\ revoke_token_access(token)
          THEN /\ active_tokens' = Remove(active_tokens, token.jti)
               /\ UNCHANGED refresh_tokens
               /\ last' = Call("tm_revoke", "true", 0, jti, rt, 0)
          ELSE IF ~is_jwt /\ refresh_token \in DOMAIN refresh_tokens
          THEN /\ refresh_tokens' = Remove(refresh_tokens, refresh_token)
               /\ UNCHANGED active_tokens
               /\ last' = Call("tm_revoke", "true", 0, jti, rt, 0)
          ELSE /\ UNCHANGED <<active_tokens, refresh_tokens>>
               /\ last' = Call("tm_revoke", "false", 0, jti, rt, 0)
       /\ UNCHANGED <<now, default_token_expiry, revoked, dcr, deleted, client_registry,
                      authorization_codes, rt_used, jwts, next_jti, next_rt, code_grants,
                      rotations, th>>

\* cleanup_expired_tokens that sweeps the active-token index only.
cleanup_expired_tokens_access_only ==
    /\ LET live == {j \in DOMAIN active_tokens :
                      ~(now >= active_tokens[j].issued_at + active_tokens[j].expires_in)}
       IN /\ active_tokens' = [j \in live |-> active_tokens[j]]
          /\ UNCHANGED refresh_tokens
          /\ last' = Call("cleanup", "ok", 0, 0, 0,
                          Cardinality(DOMAIN active_tokens \ live))
    /\ UNCHANGED <<now, default_token_expiry, revoked, dcr, deleted, client_registry, authorization_codes,
                   rt_used, jwts, next_jti, next_rt, code_grants, rotations, th>>

cleanup_expired_tokens ==
    /\ LET live == {j \in DOMAIN active_tokens :
                      ~(now >= active_tokens[j].issued_at + active_tokens[j].expires_in)}
           liveR == {r \in DOMAIN refresh_tokens : ~(now >= refresh_tokens[r].expires_at)}
       IN /\ active_tokens' = [j \in live |-> active_tokens[j]]
          /\ refresh_tokens' = [r \in liveR |-> refresh_tokens[r]]
          /\ last' = Call("cleanup", "ok", 0, 0, 0,
                          Cardinality(DOMAIN active_tokens \ live)
                            + Cardinality(DOMAIN refresh_tokens \ liveR))
    /\ UNCHANGED <<now, default_token_expiry, revoked, dcr, deleted, client_registry, authorization_codes,
                   rt_used, jwts, next_jti, next_rt, code_grants, rotations, th>>

----------------------------------------------------------------------------
(* The provider (orchestrator), each handler as one step *)

\* _validate_redirect_uri
validate_redirect_uri(redirect_uri, client_config) ==
    redirect_uri \in client_config.redirect_uris

\* authorization_request_check without the test that a code challenge is present.
authorization_request_check_no_pkce(client_id, redirect_uri, code_challenge, code_challenge_method) ==
    IF client_id \notin DOMAIN client_registry THEN "invalid_client"
    ELSE IF ~validate_redirect_uri(redirect_uri, client_registry[client_id])
         THEN "invalid_request"
    ELSE IF code_challenge_method \notin {"S256", "plain"} THEN "invalid_request"
    ELSE "ok"

\* The error code handle_authorization_request raises, or "ok".
authorization_request_check(client_id, redirect_uri, code_challenge, code_challenge_method) ==
    IF client_id \notin DOMAIN client_registry THEN "invalid_client"
    ELSE IF ~validate_redirect_uri(redirect_uri, client_registry[client_id])
         THEN "invalid_request"
    ELSE IF code_challenge = "" THEN "invalid_request"
    ELSE IF code_challenge_method \notin {"S256", "plain"} THEN "invalid_request"
    ELSE "ok"

handle_authorization_request(client_id, redirect_uri, scope, code_challenge, code_challenge_method, resource) ==
    LET err == authorization_request_check(client_id, redirect_uri, code_challenge,
                                           code_challenge_method)
        auth_code == Cardinality(DOMAIN authorization_codes) + 1
    IN /\ IF err # "ok"
          THEN /\ last' = Call("authorize", err, 0, 0, 0, 0)
               /\ UNCHANGED <<authorization_codes, code_grants>>
          ELSE /\ auth_code <= MaxCodes
               /\ authorization_codes' = Put(authorization_codes, auth_code,
                      [client_id |-> client_id, redirect_uri |-> redirect_uri,
                       scope |-> scope, code_challenge |-> code_challenge,
                       code_challenge_method |-> code_challenge_method,
                       resource |-> resource, expires_at |-> now + CodeLifetime,
                       used |-> FALSE])
               /\ code_grants' = Put(code_grants, auth_code, {})
               /\ last' = Call("authorize", "ok", auth_code, 0, 0, 0)
       /\ UNCHANGED <<now, default_token_expiry, revoked, dcr, deleted, client_registry, active_tokens,
                      refresh_tokens, rt_used, jwts, next_jti, next_rt, rotations, th>>

\* code_grant_check without the test of the used flag.
code_grant_check_no_used(cid, code, redirect_uri, code_verifier) ==
    IF cid = 0 THEN "Authentication failed"
    ELSE IF code \notin DOMAIN authorization_codes THEN "Invalid authorization code"
    ELSE IF now > authorization_codes[code].expires_at THEN "Authorization code has expired"
    ELSE IF authorization_codes[code].client_id # cid
         THEN "Authorization code issued to different client"
    ELSE IF authorization_codes[code].redirect_uri # redirect_uri THEN "Invalid redirect URI"
    ELSE IF ~verify_code_challenge(code_verifier, authorization_codes[code].code_challenge,
                                   authorization_codes[code].code_challenge_method)
         THEN "PKCE verification failed"
    ELSE "ok"

\* code_grant_check without the comparison of the redirect URI.
code_grant_check_no_redirect(cid, code, redirect_uri, code_verifier) ==
    IF cid = 0 THEN "Authentication failed"
    ELSE IF code \notin DOMAIN authorization_codes THEN "Invalid authorization code"
    ELSE IF authorization_codes[code].used THEN "Authorization code already used"
    ELSE IF now > authorization_codes[code].expires_at THEN "Authorization code has expired"
    ELSE IF authorization_codes[code].client_id # cid
         THEN "Authorization code issued to different client"
    ELSE IF ~verify_code_challenge(code_verifier, authorization_codes[code].code_challenge,
                                   authorization_codes[code].code_challenge_method)
         THEN "PKCE verification failed"
    ELSE "ok"

\* The reason the authorization-code grant is refused, or "ok".
code_grant_check(cid, code, redirect_uri, code_verifier) ==
    IF cid = 0 THEN "Authentication failed"
    ELSE IF code \notin DOMAIN authorization_codes THEN "Invalid authorization code"
    ELSE IF authorization_codes[code].used THEN "Authorization code already used"
    ELSE IF now > authorization_codes[code].expires_at THEN "Authorization code has expired"
    ELSE IF authorization_codes[code].client_id # cid
         THEN "Authorization code issued to different client"
    ELSE IF authorization_codes[code].redirect_uri # redirect_uri THEN "Invalid redirect URI"
    ELSE IF ~verify_code_challenge(code_verifier, authorization_codes[code].code_challenge,
                                   authorization_codes[code].code_challenge_method)
         THEN "PKCE verification failed"
    ELSE "ok"

\* final_resource that prefers the resource stored with the code.
final_resource_stored_first(resource, stored) ==
    IF Truthy(stored) THEN stored ELSE resource

\* final_resource = resource or auth_data["resource"]
final_resource(resource, stored) ==
    IF Truthy(resource) THEN resource ELSE stored

\* handle_authorization_code_grant that marks the code used before it verifies PKCE.
handle_authorization_code_grant_mark_early(auth, code, redirect_uri, code_verifier, resource) ==
    LET cid == authenticate_client(auth)
        why == code_grant_check(cid, code, redirect_uri, code_verifier)
    IN /\ IF why # "ok"
          THEN /\ last' = [ExchangeCall(cid, IF cid = 0 THEN "invalid_client" ELSE "invalid_grant",
                                      code, 0, 0, redirect_uri, code_verifier)
                              EXCEPT !.description = authenticate_client_failure(auth),
                                     !.auth = auth]
               /\ authorization_codes' =
                     IF why = "PKCE verification failed"
                     THEN [authorization_codes EXCEPT ![code].used = TRUE]
                     ELSE authorization_codes
               /\ UNCHANGED <<active_tokens, refresh_tokens, jwts, next_jti, next_rt,
                              code_grants>>
          ELSE LET auth_data == authorization_codes[code]
                   bound == final_resource(resource, auth_data.resource)
                   user_id == UserOf(cid)
                   expires_in == ClampExpiry(FALSE, 0)
               IN /\ next_jti <= MaxTokens
                  /\ next_rt <= MaxTokens
                  /\ authorization_codes' =
                        [authorization_codes EXCEPT ![code].used = TRUE]
                  /\ active_tokens' = Put(active_tokens, next_jti,
                        TokenContextOf(next_jti, cid, user_id, auth_data.scope,
                                       bound, expires_in))
                  /\ jwts' = jwts \cup {JwtOf(next_jti, cid, user_id, auth_data.scope,
                                               bound, expires_in)}
                  /\ refresh_tokens' = Put(refresh_tokens, next_rt,
                        RefreshRecordOf(cid, user_id, next_jti))
                  /\ next_jti' = next_jti + 1
                  /\ next_rt' = next_rt + 1
                  /\ code_grants' = Returned(code_grants, code, <<next_jti, next_rt>>)
                  /\ last' = [ExchangeCall(cid, "ok", code, next_jti, next_rt,
                                         redirect_uri, code_verifier) EXCEPT !.auth = auth]
       /\ UNCHANGED <<now, default_token_expiry, revoked, dcr, deleted, client_registry, rt_used, rotations, th>>

handle_authorization_code_grant(auth, code, redirect_uri, code_verifier, resource) ==
    LET cid == authenticate_client(auth)
        why == code_grant_check(cid, code, redirect_uri, code_verifier)
    IN /\ IF why # "ok"
          THEN /\ last' = [ExchangeCall(cid, IF cid = 0 THEN "invalid_client" ELSE "invalid_grant",
                                      code, 0, 0, redirect_uri, code_verifier)
                              EXCEPT !.description = authenticate_client_failure(auth),
                                     !.auth = auth]
               /\ UNCHANGED <<authorization_codes, active_tokens, refresh_tokens, jwts,
                              next_jti, next_rt, code_grants>>
          ELSE LET auth_data == authorization_codes[code]
                   bound == final_resource(resource, auth_data.resource)
                   user_id == UserOf(cid)
                   expires_in == ClampExpiry(FALSE, 0)
               IN /\ next_jti <= MaxTokens
                  /\ next_rt <= MaxTokens
                  /\ authorization_codes' =
                        [authorization_codes EXCEPT ![code].used = TRUE]
                  /\ active_tokens' = Put(active_tokens, next_jti,
                        TokenContextOf(next_jti, cid, user_id, auth_data.scope,
                                       bound, expires_in))
                  /\ jwts' = jwts \cup {JwtOf(next_jti, cid, user_id, auth_data.scope,
                                               bound, expires_in)}
                  /\ refresh_tokens' = Put(refresh_tokens, next_rt,
                        RefreshRecordOf(cid, user_id, next_jti))
                  /\ next_jti' = next_jti + 1
                  /\ next_rt' = next_rt + 1
                  /\ code_grants' = Returned(code_grants, code, <<next_jti, next_rt>>)
                  /\ last' = [ExchangeCall(cid, "ok", code, next_jti, next_rt,
                                         redirect_uri, code_verifier) EXCEPT !.auth = auth]
       /\ UNCHANGED <<now, default_token_expiry, revoked, dcr, deleted, client_registry, rt_used, rotations, th>>

\* refresh_rotate that leaves the presented refresh token as it was: no rotation.
refresh_rotate_keep_old(cid, refresh_token, resource) ==
    LET refresh_data == refresh_tokens[refresh_token]
        expires_in == ClampExpiry(FALSE, 0)
    IN /\ next_jti <= MaxTokens
       /\ next_rt <= MaxTokens
       /\ rt_used' = rt_used
       /\ active_tokens' = Put(Remove(active_tokens, refresh_data.access_token_jti),
             next_jti,
             TokenContextOf(next_jti, refresh_data.client_id, refresh_data.user_id,
                            None, resource, expires_in))
       /\ jwts' = jwts \cup {JwtOf(next_jti, refresh_data.client_id,
                                    refresh_data.user_id, None, resource, expires_in)}
       /\ refresh_tokens' = Put(refresh_tokens, next_rt,
             RefreshRecordOf(refresh_data.client_id, refresh_data.user_id, next_jti))
       /\ next_jti' = next_jti + 1
       /\ next_rt' = next_rt + 1
       /\ rotations' = Returned(rotations, refresh_token, <<next_jti, next_rt>>)
       /\ last' = CallBy(cid, "refresh", "ok", 0, next_jti, next_rt, refresh_token, None)

\* refresh_rotate that leaves the old access token in the active-token index.
refresh_rotate_keep_access(cid, refresh_token, resource) ==
    LET refresh_data == refresh_tokens[refresh_token]
        expires_in == ClampExpiry(FALSE, 0)
    IN /\ next_jti <= MaxTokens
       /\ next_rt <= MaxTokens
       /\ rt_used' = rt_used \cup {refresh_token}
       /\ active_tokens' = Put(active_tokens, next_jti,
             TokenContextOf(next_jti, refresh_data.client_id, refresh_data.user_id,
                            None, resource, expires_in))
       /\ jwts' = jwts \cup {JwtOf(next_jti, refresh_data.client_id,
                                    refresh_data.user_id, None, resource, expires_in)}
       /\ refresh_tokens' = Remove(Put(refresh_tokens, next_rt,
             RefreshRecordOf(refresh_data.client_id, refresh_data.user_id, next_jti)),
             refresh_token)
       /\ next_jti' = next_jti + 1
       /\ next_rt' = next_rt + 1
       /\ rotations' = Returned(rotations, refresh_token, <<next_jti, next_rt>>)
       /\ last' = CallBy(cid, "refresh", "ok", 0, next_jti, next_rt, refresh_token, None)

\* refresh_access_token once the refresh token passed its checks: mark it used, drop
\* the old access token, mint the new pair, remove the old refresh token.
refresh_rotate(cid, refresh_token, resource) ==
    LET refresh_data == refresh_tokens[refresh_token]
        expires_in == ClampExpiry(FALSE, 0)
    IN /\ next_jti <= MaxTokens
       /\ next_rt <= MaxTokens
       /\ rt_used' = rt_used \cup {refresh_token}
       /\ active_tokens' = Put(Remove(active_tokens, refresh_data.access_token_jti),
             next_jti,
             TokenContextOf(next_jti, refresh_data.client_id, refresh_data.user_id,
                            None, resource, expires_in))
       /\ jwts' = jwts \cup {JwtOf(next_jti, refresh_data.client_id,
                                    refresh_data.user_id, None, resource, expires_in)}
       /\ refresh_tokens' = Remove(Put(refresh_tokens, next_rt,
             RefreshRecordOf(refresh_data.client_id, refresh_data.user_id, next_jti)),
             refresh_token)
       /\ next_jti' = next_jti + 1
       /\ next_rt' = next_rt + 1
       /\ rotations' = Returned(rotations, refresh_token, <<next_jti, next_rt>>)
       /\ last' = CallBy(cid, "refresh", "ok", 0, next_jti, next_rt, refresh_token, None)

handle_refresh_token_grant(auth, refresh_token, resource) ==
    LET cid == authenticate_client(auth)
        why == IF cid = 0 THEN "Authentication failed" ELSE refresh_check(refresh_token)
    IN /\ IF cid = 0
          THEN /\ last' = CallBy(cid, "refresh", "invalid_client", 0, 0, 0, refresh_token, None)
               /\ UNCHANGED <<active_tokens, refresh_tokens, rt_used, jwts, next_jti, next_rt,
                              rotations>>
          ELSE IF why = "Refresh token already used"
          THEN LET refresh_data == refresh_tokens[refresh_token]
               IN /\ active_tokens' = revoke_all_client_tokens(active_tokens,
                                           refresh_data.client_id, refresh_data.user_id)
                  /\ refresh_tokens' = revoke_all_client_tokens(refresh_tokens,
                                           refresh_data.client_id, refresh_data.user_id)
                  /\ last' = CallBy(cid, "refresh", "invalid_grant", 0, 0, 0, refresh_token, None)
                  /\ UNCHANGED <<rt_used, jwts, next_jti, next_rt, rotations>>
          ELSE IF why # "ok"
          THEN /\ last' = CallBy(cid, "refresh", "invalid_grant", 0, 0, 0, refresh_token, None)
               /\ UNCHANGED <<active_tokens, refresh_tokens, rt_used, jwts, next_jti, next_rt,
                              rotations>>
          ELSE refresh_rotate(cid, refresh_token, resource)
       /\ UNCHANGED <<now, default_token_expiry, revoked, dcr, deleted, client_registry, authorization_codes,
                      code_grants, th>>

ScopeSet(scope) == IF scope = None THEN {} ELSE {scope}

validate_resource_request(token, resource, required_scope) ==
    LET why == validate_access_token(token, resource)
    IN /\ IF why # "ok"
          THEN /\ last' = CallR("validate", "invalid_token", 0, 0, 0, token.jti, resource)
               /\ active_tokens' = IF why = "Token has expired"
                                   THEN Remove(active_tokens, token.jti) ELSE active_tokens
          ELSE /\ UNCHANGED active_tokens
               /\ IF /\ required_scope # None
                     /\ active_tokens[token.jti].scope # None
                     /\ ~(ScopeSet(required_scope) \subseteq ScopeSet(active_tokens[token.jti].scope))
                  THEN last' = CallR("validate", "insufficient_scope", 0, 0, 0, token.jti, resource)
                  ELSE last' = CallR("validate", "ok", 0, 0, 0, token.jti, resource)
       /\ UNCHANGED <<now, default_token_expiry, revoked, dcr, deleted, client_registry, authorization_codes,
                      refresh_tokens, rt_used, jwts, next_jti, next_rt, code_grants,
                      rotations, th>>

\* revoke_token that revokes for a caller whose authentication failed as well.
revoke_token_no_auth(auth, is_jwt, token, refresh_token) ==
    LET cid == authenticate_client(auth)
        jti == IF is_jwt THEN token.jti ELSE 0
        rt == IF is_jwt THEN 0 ELSE refresh_token
    IN /\ IF is_jwt /\ revoke_token_access(token)
          THEN /\ active_tokens' = Remove(active_tokens, token.jti)
               /\ UNCHANGED refresh_tokens
               /\ last' = CallBy(cid, "revoke", "true", 0, jti, rt, 0, None)
          ELSE IF ~is_jwt /\ refresh_token \in DOMAIN refresh_tokens
          THEN /\ refresh_tokens' = Remove(refresh_tokens, refresh_token)
               /\ UNCHANGED active_tokens
               /\ last' = CallBy(cid, "revoke", "true", 0, jti, rt, 0, None)
          ELSE /\ UNCHANGED <<active_tokens, refresh_tokens>>
               /\ last' = CallBy(cid, "revoke", IF cid = 0 THEN "true" ELSE "false",
                                 0, jti, rt, 0, None)
       /\ UNCHANGED <<now, default_token_expiry, dcr, deleted, client_registry, authorization_codes,
                      rt_used, jwts, next_jti, next_rt, code_grants, rotations, th>>

\* revoke_token that reports a refresh token revoked and leaves it in the index.
revoke_token_keep_refresh(auth, is_jwt, token, refresh_token) ==
    LET cid == authenticate_client(auth)
        jti == IF is_jwt THEN token.jti ELSE 0
        rt == IF is_jwt THEN 0 ELSE refresh_token
    IN /\ IF cid = 0
          THEN /\ last' = CallBy(cid, "revoke", "true", 0, jti, rt, 0, None)
               /\ UNCHANGED <<active_tokens, refresh_tokens>>
          ELSE IF is_jwt /\ revoke_token_access(token)
          THEN /\ active_tokens' = Remove(active_tokens, token.jti)
               /\ UNCHANGED refresh_tokens
               /\ last' = CallBy(cid, "revoke", "true", 0, jti, rt, 0, None)
          ELSE IF ~is_jwt /\ refresh_token \in DOMAIN refresh_tokens
          THEN /\ UNCHANGED <<active_tokens, refresh_tokens>>
               /\ last' = CallBy(cid, "revoke", "true", 0, jti, rt, 0, None)
          ELSE /\ UNCHANGED <<active_tokens, refresh_tokens>>
               /\ last' = CallBy(cid, "revoke", "false", 0, jti, rt, 0, None)
       /\ UNCHANGED <<now, default_token_expiry, dcr, deleted, client_registry, authorization_codes,
                      rt_used, jwts, next_jti, next_rt, code_grants, rotations, th>>

\* OAuth21Provider.revoke_token with an access token (is_jwt) or a refresh token string.
\* The call record keeps the token presented: its jti, or the refresh token.
revoke_token(auth, is_jwt, token, refresh_token) ==
    LET cid == authenticate_client(auth)
        jti == IF is_jwt THEN token.jti ELSE 0
        rt == IF is_jwt THEN 0 ELSE refresh_token
    IN /\ IF cid = 0
          THEN /\ last' = CallBy(cid, "revoke", "true", 0, jti, rt, 0, None)
               /\ UNCHANGED <<active_tokens, refresh_tokens>>
          ELSE IF is_jwt /\ revoke_token_access(token)
          THEN /\ active_tokens' = Remove(active_tokens, token.jti)
               /\ UNCHANGED refresh_tokens
               /\ last' = CallBy(cid, "revoke", "true", 0, jti, rt, 0, None)
          ELSE IF ~is_jwt /\ refresh_token \in DOMAIN refresh_tokens
          THEN /\ refresh_tokens' = Remove(refresh_tokens, refresh_token)
               /\ UNCHANGED active_tokens
               /\ last' = CallBy(cid, "revoke", "true", 0, jti, rt, 0, None)
          ELSE /\ UNCHANGED <<active_tokens, refresh_tokens>>
               /\ last' = CallBy(cid, "revoke", "false", 0, jti, rt, 0, None)
       /\ UNCHANGED <<now, default_token_expiry, dcr, deleted, client_registry, authorization_codes,
                      rt_used, jwts, next_jti, next_rt, code_grants, rotations, th>>

\* OAuth21Provider.introspect_token(token, client_auth). validate_access_token drops a
\* token it finds expired in the index (231-237).
introspect_token(auth, token) ==
    LET cid == authenticate_client(auth)
        response == IF cid = 0 THEN [active |-> FALSE] ELSE introspect_token_response(token)
        result == IF response = [active |-> FALSE] THEN "inactive"
                  ELSE IF response = NoResponse THEN "InvalidAudienceError"
                  ELSE "active"
    IN /\ last' = IntrospectCall(cid, token, result, response)
       /\ active_tokens' = IF cid # 0 /\ validate_access_token(token, None) = "Token has expired"
                           THEN Remove(active_tokens, token.jti) ELSE active_tokens
       /\ UNCHANGED <<now, default_token_expiry, revoked, dcr, deleted, client_registry, authorization_codes,
                      refresh_tokens, rt_used, jwts, next_jti, next_rt, code_grants,
                      rotations, th>>

Tick(t) ==
    /\ t > now
    /\ now' = t
    /\ UNCHANGED <<default_token_expiry, revoked, dcr, deleted, client_registry, authorization_codes,
                   active_tokens,
                   refresh_tokens, rt_used, jwts, next_jti, next_rt, code_grants,
                   rotations, last, th>>

----------------------------------------------------------------------------
(* Spec: the handlers one at a time *)

Threads == {1, 2}

\* The refresh record a frame holds when it holds none.
NoData == [client_id |-> 0, user_id |-> 0, access_token_jti |-> 0, expires_at |-> 0]

\* The frame of a thread that runs no token request. A running frame keeps the
\* request's arguments, the statement it is at (pc) and its locals: key is the code or
\* the refresh token presented, data the refresh record it fetched, jti and rt the
\* tokens it minted, seen and todo the locals of _revoke_all_client_tokens.
Idle ==
    [pc |-> "idle", cid |-> 0, key |-> 0, redirect_uri |-> "", code_verifier |-> "",
     resource |-> None, data |-> NoData, jti |-> 0, rt |-> 0, seen |-> {}, todo |-> {}]

Init ==
    /\ now = 0
    /\ default_token_expiry = TokenManagerInit(DefaultTokenExpiry)
    /\ client_registry = RegisteredClients
    /\ authorization_codes = <<>>
    /\ active_tokens = <<>>
    /\ refresh_tokens = <<>>
    /\ rt_used = {}
    /\ jwts = {}
    /\ next_jti = 1
    /\ next_rt = 1
    /\ code_grants = <<>>
    /\ rotations = <<>>
    /\ revoked = {}
    /\ dcr = DynamicClientRegistryInit
    /\ deleted = {}
    /\ last = Call("init", "ok", 0, 0, 0, 0)
    /\ th = [t \in Threads |-> Idle]

OptResources == Resources \cup {None}

\* <<code_challenge, code_challenge_method>> of an authorization request
PkceInputs == {<<S256("v1"), "S256">>, <<"", "S256">>, <<S256("v1"), "none">>}

\* <<client_id, redirect_uri>> of an authorization request; client 3 is not registered.
ClientInputs ==
    {<<1, "https://app.example/cb">>, <<2, "https://app.example/cb">>,
     <<1, "https://other.example/cb">>, <<3, "https://app.example/cb">>}

\* The authorization requests of the model: every request of a registered client with
\* its redirect URI, and one request for each of the other client inputs.
AuthorizeInputs ==
    {<<c, p, res>> \in ClientInputs \X PkceInputs \X {None, "https://a"} :
        \/ c[1] \in {1, 2} /\ c[2] = "https://app.example/cb"
        \/ p[2] = "S256" /\ p[1] # "" /\ res = None}

Authorize ==
    \E i \in AuthorizeInputs, s \in Scopes :
        handle_authorization_request(i[1][1], i[1][2], s, i[2][1], i[2][2], i[3])

Exchange ==
    \E a \in ClientAuths, code \in DOMAIN authorization_codes \cup {0}, r \in RedirectUris,
       v \in Verifiers, res \in {None, "https://b"} :
        handle_authorization_code_grant(a, code, r, v, res)

Refresh ==
    \E a \in ClientAuths, rt \in 1..(next_rt - 1), res \in {None, "https://b"} :
        handle_refresh_token_grant(a, rt, res)

Validate ==
    \E t \in jwts \cup {Garbage}, res \in OptResources, s \in {None, "write"} :
        (s = None \/ res = None) /\ validate_resource_request(t, res, s)

Revoke ==
    /\ \/ \E a \in ClientAuths, t \in jwts \cup {Garbage} : revoke_token(a, TRUE, t, 0)
       \/ \E a \in ClientAuths, rt \in 1..(next_rt - 1) : revoke_token(a, FALSE, Garbage, rt)
    /\ UNCHANGED revoked

\* create_access_token with and without a requested expires_in, below and above
\* the cap.
Issue ==
    \E res \in {None, "https://a"}, h \in BOOLEAN, ttl \in RequestedExpiries :
        create_access_token(1, None, res, h, ttl)

Sweep == cleanup_expired_tokens

Time == \E t \in TimePoints : Tick(t)

Next ==
    \/ Authorize
    \/ Exchange
    \/ Refresh
    \/ Validate
    \/ Revoke
    \/ Sweep
    \/ Time

Spec == Init /\ [][Next]_vars

\* The authorization requests of the confidential client with an S256 challenge.
AuthorizeC ==
    \E r \in RedirectUris, res \in {None, "https://a"} :
        handle_authorization_request(1, r, "read", S256("v1"), "S256", res)

----------------------------------------------------------------------------
(* SpecX: the authorization-code flow alone, with both PKCE methods and the *)
(* public client's requests                                                 *)

\* The authorization requests of both clients, with an S256 and a plain challenge.
AuthorizeX ==
    \E c \in {1, 2}, p \in {<<S256("v1"), "S256">>, <<"v1", "plain">>},
       res \in {None, "https://a"} :
        handle_authorization_request(c, "https://app.example/cb", "read", p[1], p[2], res)

NextX ==
    \/ AuthorizeX
    \/ Exchange
    \/ Time

SpecX == Init /\ [][NextX]_vars

----------------------------------------------------------------------------
(* SpecB: the authorization-code flow with a resource indicator given, empty *)
(* or absent in the authorization request and in the token request           *)

\* The resource parameter of a request: absent, empty, or an indicator.
AuthorizeResources == {None, "", "https://a"}
ExchangeResources == {None, "", "https://b"}

AuthorizeB ==
    \E c \in {1, 2}, res \in AuthorizeResources :
        handle_authorization_request(c, "https://app.example/cb", "read", S256("v1"),
                                     "S256", res)

ExchangeB ==
    \E a \in ClientAuths, code \in DOMAIN authorization_codes \cup {0},
       v \in Verifiers, res \in ExchangeResources :
        handle_authorization_code_grant(a, code, "https://app.example/cb", v, res)

ValidateB ==
    \E t \in jwts, res \in OptResources : validate_resource_request(t, res, None)

NextB ==
    \/ AuthorizeB
    \/ ExchangeB
    \/ ValidateB
    \/ Time

SpecB == Init /\ [][NextB]_vars

----------------------------------------------------------------------------
(* SpecA: client authentication on its own and in the token request, over several *)
(* registries and credentials                                                     *)

\* The registries of the model: none registered; the confidential client 1 and the
\* public client 2; these and a client 3 registered for client_secret_post.
Registries ==
    {<<>>, RegisteredClients,
     register_client(RegisteredClients, {"https://app.example/cb"}, "client_secret_post")}

\* The credentials presented: each secret method and an unsupported one, client ids
\* 1..4 (4 is never registered), no secret (0) and the secrets 1..3.
AuthInputs ==
    {ClientAuth(m, c, sec) : m \in SecretMethods \cup {"none"}, c \in 1..4, sec \in 0..3}

InitA ==
    /\ now = 0
    /\ default_token_expiry = TokenManagerInit(DefaultTokenExpiry)
    /\ client_registry \in Registries
    /\ authorization_codes = <<>>
    /\ active_tokens = <<>>
    /\ refresh_tokens = <<>>
    /\ rt_used = {}
    /\ jwts = {}
    /\ next_jti = 1
    /\ next_rt = 1
    /\ code_grants = <<>>
    /\ rotations = <<>>
    /\ revoked = {}
    /\ dcr = DynamicClientRegistryInit
    /\ deleted = {}
    /\ last = Call("init", "ok", 0, 0, 0, 0)
    /\ th = [t \in Threads |-> Idle]

Authenticate == \E a \in AuthInputs : authenticate(a)

\* A token request with any of the credentials, for a code that was issued or for none.
ExchangeA ==
    \E a \in AuthInputs, code \in DOMAIN authorization_codes \cup {0} :
        handle_authorization_code_grant(a, code, "https://app.example/cb", "v1", None)

NextA ==
    \/ Authenticate
    \/ AuthorizeC
    \/ ExchangeA

SpecA == InitA /\ [][NextA]_vars

----------------------------------------------------------------------------
(* SpecG: the dynamic client registry: register, get, update and delete *)

\* Registration requests: a good and a loopback redirect URI, none, a plain-http one,
\* every method, an unknown method and an unsupported grant type.
RegisterInputs ==
    {Request(u, None, {}) : u \in {{"https://app.example/cb"}, {"http://localhost/cb"}, {},
                                    {"http://app.example/cb"}}}
      \cup {Request({"https://app.example/cb"}, m, {}) :
                m \in {"client_secret_post", "private_key_jwt", "tls_client_auth", "none",
                       "bogus"}}
      \cup {Request({"https://app.example/cb"}, None, {"implicit"})}

\* Update requests: no redirect URIs, good ones, and lists with a plain-http URI, with a
\* host that only starts with localhost, and with a string that is no URI.
UpdateInputs ==
    {Request(u, None, {}) : u \in {{}, {"https://other.example/cb"},
                                    {"https://app.example/cb", "http://app.example/cb"},
                                    {"http://localhost.evil.example/cb"}, {"app.example/cb"}}}
      \cup {Request({"http://127.0.0.1:8080/cb"}, "none", {})}

\* The client ids and registration tokens presented; the last of each is never issued.
ClientIdInputs == 1..(MaxClients + 1)
TokenInputs == 1..(MaxClients + 1)

\* The clock before, at and after the expiry of a registration token issued at 0.
RegistryTimePoints == {RegistrationTokenExpiry, RegistrationTokenExpiry + 1}

Register == \E d \in RegisterInputs : register_client_request(d)

Get == \E c \in ClientIdInputs : get_client(c)

Update ==
    \E c \in ClientIdInputs, t \in TokenInputs, d \in UpdateInputs : update_client(c, t, d)

\* The client and the token of the delete_client call recorded, when it returned True.
DeletedBy(call) ==
    IF call.op = "delete" /\ call.result = "ok" THEN {<<call.client_id, call.token>>} ELSE {}

Delete ==
    /\ \E c \in ClientIdInputs, t \in TokenInputs : delete_client(c, t)
    /\ deleted' = deleted \cup DeletedBy(last')

TimeG == \E t \in RegistryTimePoints : Tick(t)

NextG ==
    \/ Register
    \/ Get
    \/ Update
    \/ Delete
    \/ TimeG

SpecG == Init /\ [][NextG]_vars

----------------------------------------------------------------------------
(* SpecP: the PKCE functions applied to inputs drawn in the initial state *)

\* The challenges presented: the S256 digests of the well-formed verifiers, one of
\* them with a character altered, a verifier itself (plain), and none.
Challenges == {S256("v1"), S256("v2"), S256("v1") \o "x", "v1", ""}

ChallengeMethods == {"S256", "plain", "none"}

PkceCall(op, code_verifier, code_challenge, method, result) ==
    [op |-> op, code_verifier |-> code_verifier, code_challenge |-> code_challenge,
     method |-> method, result |-> result]

InitP ==
    /\ now = 0
    /\ default_token_expiry = TokenManagerInit(DefaultTokenExpiry)
    /\ client_registry = RegisteredClients
    /\ authorization_codes = <<>>
    /\ active_tokens = <<>>
    /\ refresh_tokens = <<>>
    /\ rt_used = {}
    /\ jwts = {}
    /\ next_jti = 1
    /\ next_rt = 1
    /\ code_grants = <<>>
    /\ rotations = <<>>
    /\ revoked = {}
    /\ dcr = DynamicClientRegistryInit
    /\ deleted = {}
    /\ last \in {PkceCall("input", v, c, m, "") :
                    v \in Verifiers \cup MalformedVerifiers, c \in Challenges,
                    m \in ChallengeMethods}
    /\ th = [t \in Threads |-> Idle]

PkceFrame ==
    UNCHANGED <<now, default_token_expiry, revoked, dcr, deleted, client_registry, authorization_codes,
                active_tokens, refresh_tokens, rt_used, jwts, next_jti, next_rt,
                code_grants, rotations, th>>

\* generate_code_challenge(code_verifier, method)
Derive ==
    /\ last.op = "input"
    /\ last' = [last EXCEPT !.op = "derive",
                            !.result = generate_code_challenge(last.code_verifier, last.method)]
    /\ PkceFrame

\* verify_code_challenge(code_verifier, code_challenge, method)
Verify ==
    /\ last.op = "input"
    /\ last' = [last EXCEPT !.op = "verify",
                            !.result = verify_code_challenge_outcome(
                                           last.code_verifier, last.code_challenge, last.method)]
    /\ PkceFrame

\* verify_code_challenge(v, generate_code_challenge(v, method), method)
RoundTrip ==
    /\ last.op = "input"
    /\ validate_code_verifier(last.code_verifier) = "ok"
    /\ last.method \in {"S256", "plain"}
    /\ last' = [last EXCEPT !.op = "round_trip",
                            !.result = verify_code_challenge_outcome(
                                           last.code_verifier,
                                           generate_code_challenge(last.code_verifier, last.method),
                                           last.method)]
    /\ PkceFrame

NextP ==
    \/ Derive
    \/ Verify
    \/ RoundTrip

SpecP == InitP /\ [][NextP]_vars

----------------------------------------------------------------------------
(* SpecT: the token manager constructed with any configured default expiry, and *)
(* create_access_token called on its own beside the handlers                     *)

InitT ==
    /\ now = 0
    /\ default_token_expiry \in {TokenManagerInit(d) : d \in ConfiguredExpiries}
    /\ client_registry = RegisteredClients
    /\ authorization_codes = <<>>
    /\ active_tokens = <<>>
    /\ refresh_tokens = <<>>
    /\ rt_used = {}
    /\ jwts = {}
    /\ next_jti = 1
    /\ next_rt = 1
    /\ code_grants = <<>>
    /\ rotations = <<>>
    /\ revoked = {}
    /\ dcr = DynamicClientRegistryInit
    /\ deleted = {}
    /\ last = Call("init", "ok", 0, 0, 0, 0)
    /\ th = [t \in Threads |-> Idle]

\* The confidential client redeems a code, with either verifier.
ExchangeT ==
    \E code \in DOMAIN authorization_codes, v \in Verifiers :
        handle_authorization_code_grant(ClientAuth("client_secret_basic", 1, 1), code,
                                        "https://app.example/cb", v, None)

\* The confidential client presents a refresh token that was minted.
RefreshT ==
    \E rt \in 1..(next_rt - 1) :
        handle_refresh_token_grant(ClientAuth("client_secret_basic", 1, 1), rt, None)

NextT ==
    \/ Issue
    \/ AuthorizeC
    \/ ExchangeT
    \/ RefreshT
    \/ Sweep
    \/ Time

SpecT == InitT /\ [][NextT]_vars

----------------------------------------------------------------------------
(* SpecR: revocation, with the history of the tokens that were revoked *)

\* The token for which TokenManager.revoke_token returned True in the call recorded:
\* the provider reached the token manager (the client was authenticated) and the
\* result was True.
RevokedBy(call) ==
    IF call.op = "revoke" /\ call.client # 0 /\ call.result = "true"
    THEN {IF call.jti # 0 THEN <<"access", call.jti>> ELSE <<"refresh", call.rt>>}
    ELSE {}

\* The confidential client, with its secret or a wrong one, revokes an access token
\* that was issued or a refresh token that was minted.
RevokeR ==
    /\ \/ \E a \in ThreadAuths, t \in jwts : revoke_token(a, TRUE, t, 0)
       \/ \E a \in ThreadAuths, rt \in 1..(next_rt - 1) : revoke_token(a, FALSE, Garbage, rt)
    /\ revoked' = revoked \cup RevokedBy(last')

RefreshR ==
    \E a \in ThreadAuths, rt \in 1..(next_rt - 1) : handle_refresh_token_grant(a, rt, None)

ValidateR ==
    \E t \in jwts, res \in {None, "https://a"} : validate_resource_request(t, res, None)

NextR ==
    \/ AuthorizeC
    \/ ExchangeT
    \/ RefreshR
    \/ ValidateR
    \/ RevokeR
    \/ Sweep
    \/ Time

SpecR == Init /\ [][NextR]_vars

----------------------------------------------------------------------------
(* SpecI: introspection of issued, forged, expired and revoked tokens *)

\* A token signed with the server's key that names another issuer.
WrongIssuer(t) == [t EXCEPT !.iss = "https://other-as.example"]

\* An issued token whose signature does not verify.
WronglySigned(t) == [t EXCEPT !.sig = "invalid"]

\* A refresh token presented for introspection: an opaque string, which jwt.decode
\* cannot parse.
RefreshTokenString(rt) == [Garbage EXCEPT !.sig = "malformed", !.sub = rt]

IntrospectInputs ==
    jwts \cup {Garbage} \cup {WrongIssuer(t) : t \in jwts} \cup {WronglySigned(t) : t \in jwts}
         \cup {RefreshTokenString(rt) : rt \in DOMAIN refresh_tokens}

Introspect ==
    \E a \in ThreadAuths, t \in IntrospectInputs : introspect_token(a, t)

NextI ==
    \/ AuthorizeC
    \/ ExchangeT
    \/ RefreshR
    \/ RevokeR
    \/ Introspect
    \/ Time

SpecI == Init /\ [][NextI]_vars

----------------------------------------------------------------------------
(* SpecV: TokenManager.revoke_token called on its own *)

\* Revocation of an issued access token, of a string that is no JWT, of a crafted JWT,
\* and of refresh token strings, minted or not.
TmRevoke ==
    \/ \E t \in jwts \cup {Garbage, CraftedToken} : token_manager_revoke_token(TRUE, t, 0)
    \/ \E rt \in 1..next_rt : token_manager_revoke_token(FALSE, Garbage, rt)

NextV ==
    \/ AuthorizeC
    \/ ExchangeT
    \/ RefreshT
    \/ TmRevoke
    \/ Time

SpecV == Init /\ [][NextV]_vars

----------------------------------------------------------------------------
(* SpecF: token requests for a code that fail in each of the ways the handler *)
(* tests for, beside the ones that succeed                                     *)

\* The verifiers presented: the right one, a wrong one, and malformed ones.
PresentedVerifiers == Verifiers \cup {"", "short"}

ExchangeF ==
    \E a \in ClientAuths, code \in DOMAIN authorization_codes \cup {0}, r \in RedirectUris,
       v \in PresentedVerifiers :
        handle_authorization_code_grant(a, code, r, v, None)

NextF ==
    \/ AuthorizeX
    \/ ExchangeF
    \/ RefreshT
    \/ Time

SpecF == Init /\ [][NextF]_vars

----------------------------------------------------------------------------
(* SpecM: two confidential clients at the token endpoint, each with its own *)
(* credentials, codes and tokens                                            *)

\* The registry with a second confidential client (3, client_secret_post).
TwoConfidentialClients ==
    register_client(RegisteredClients, {"https://app.example/cb"}, "client_secret_post")

\* The right credentials of the two confidential clients.
ConfidentialAuths ==
    {ClientAuth("client_secret_basic", 1, 1), ClientAuth("client_secret_post", 3, 3)}

InitM ==
    /\ now = 0
    /\ default_token_expiry = TokenManagerInit(DefaultTokenExpiry)
    /\ client_registry = TwoConfidentialClients
    /\ authorization_codes = <<>>
    /\ active_tokens = <<>>
    /\ refresh_tokens = <<>>
    /\ rt_used = {}
    /\ jwts = {}
    /\ next_jti = 1
    /\ next_rt = 1
    /\ code_grants = <<>>
    /\ rotations = <<>>
    /\ revoked = {}
    /\ dcr = DynamicClientRegistryInit
    /\ deleted = {}
    /\ last = Call("init", "ok", 0, 0, 0, 0)
    /\ th = [t \in Threads |-> Idle]

AuthorizeM ==
    \E c \in {1, 3}, res \in {None, "https://a"} :
        handle_authorization_request(c, "https://app.example/cb", "read", S256("v1"),
                                     "S256", res)

ExchangeM ==
    \E a \in ConfidentialAuths, code \in DOMAIN authorization_codes :
        handle_authorization_code_grant(a, code, "https://app.example/cb", "v1", None)

RefreshM ==
    \E a \in ConfidentialAuths, rt \in 1..(next_rt - 1), res \in OptResources :
        handle_refresh_token_grant(a, rt, res)

NextM ==
    \/ AuthorizeM
    \/ ExchangeM
    \/ RefreshM
    \/ Time

SpecM == InitM /\ [][NextM]_vars

----------------------------------------------------------------------------
(* SpecL: the code flow and the periodic sweep under fair scheduling: the clock *)
(* advances, the sweep timer fires and a pending exchange is served             *)

NextL ==
    \/ AuthorizeC
    \/ ExchangeT
    \/ RefreshT
    \/ Sweep
    \/ Time

SpecL ==
    /\ Init
    /\ [][NextL]_vars
    /\ WF_vars(Sweep)
    /\ WF_vars(Time)
    /\ WF_vars(ExchangeT)
    /\ WF_vars(RefreshT)

----------------------------------------------------------------------------
(* SpecC: two token requests as threads; every statement that reads or writes a *)
(* shared dictionary is a step of its own                                        *)

\* The thread returns or raises: its frame is dropped and the outcome recorded.
Finish(t, call) ==
    /\ th' = [th EXCEPT ![t] = Idle]
    /\ last' = call

Goto(t, pc) == th' = [th EXCEPT ![t].pc = pc]

\* _handle_authorization_code_grant up to auth_data = self.authorization_codes.get(code)
XBegin(t, auth, code, redirect_uri, code_verifier, resource) ==
    /\ th[t].pc = "idle"
    /\ LET cid == authenticate_client(auth)
       IN IF cid = 0
          THEN Finish(t, CallBy(0, "exchange", "invalid_client", code, 0, 0, 0, None))
          ELSE IF code \notin DOMAIN authorization_codes
          THEN Finish(t, CallBy(cid, "exchange", "invalid_grant", code, 0, 0, 0, None))
          ELSE /\ th' = [th EXCEPT ![t] =
                           [Idle EXCEPT !.pc = "x_check", !.cid = cid, !.key = code,
                                        !.redirect_uri = redirect_uri,
                                        !.code_verifier = code_verifier,
                                        !.resource = resource]]
               /\ UNCHANGED last
    /\ UNCHANGED <<now, default_token_expiry, revoked, dcr, deleted, client_registry, authorization_codes,
                   active_tokens, refresh_tokens, rt_used, jwts, next_jti, next_rt,
                   code_grants, rotations>>

\* The tests of the code record: used, expiry, client, redirect URI, PKCE.
XCheck(t) ==
    /\ th[t].pc = "x_check"
    /\ IF code_grant_check(th[t].cid, th[t].key, th[t].redirect_uri,
                           th[t].code_verifier) # "ok"
       THEN Finish(t, CallBy(th[t].cid, "exchange", "invalid_grant", th[t].key,
                             0, 0, 0, None))
       ELSE Goto(t, "x_mark") /\ UNCHANGED last
    /\ UNCHANGED <<now, default_token_expiry, revoked, dcr, deleted, client_registry, authorization_codes,
                   active_tokens, refresh_tokens, rt_used, jwts, next_jti, next_rt,
                   code_grants, rotations>>

\* auth_data["used"] = True
XMark(t) ==
    /\ th[t].pc = "x_mark"
    /\ authorization_codes' = [authorization_codes EXCEPT ![th[t].key].used = TRUE]
    /\ Goto(t, "x_access")
    /\ UNCHANGED <<now, default_token_expiry, revoked, dcr, deleted, client_registry, active_tokens,
                   refresh_tokens, rt_used, jwts, next_jti, next_rt, code_grants,
                   rotations, last>>

\* XAccess that, when the token cannot be minted, puts the code back to unused and
\* reports server_error.
XAccess_rollback(t) ==
    /\ th[t].pc = "x_access"
    /\ authorization_codes' = [authorization_codes EXCEPT ![th[t].key].used = FALSE]
    /\ Finish(t, CallBy(th[t].cid, "exchange", "server_error", th[t].key, 0, 0, 0, None))
    /\ UNCHANGED <<now, default_token_expiry, revoked, dcr, deleted, client_registry, active_tokens,
                   refresh_tokens, rt_used, jwts, next_jti, next_rt, code_grants,
                   rotations>>

\* self.token_manager.create_access_token(...)
XAccess(t) ==
    /\ th[t].pc = "x_access"
    /\ next_jti <= MaxTokens
    /\ LET auth_data == authorization_codes[th[t].key]
           bound == final_resource(th[t].resource, auth_data.resource)
           user_id == UserOf(th[t].cid)
           expires_in == ClampExpiry(FALSE, 0)
       IN /\ active_tokens' = Put(active_tokens, next_jti,
                 TokenContextOf(next_jti, th[t].cid, user_id, auth_data.scope,
                                bound, expires_in))
          /\ jwts' = jwts \cup {JwtOf(next_jti, th[t].cid, user_id, auth_data.scope,
                                       bound, expires_in)}
    /\ next_jti' = next_jti + 1
    /\ th' = [th EXCEPT ![t].pc = "x_refresh", ![t].jti = next_jti]
    /\ UNCHANGED <<now, default_token_expiry, revoked, dcr, deleted, client_registry, authorization_codes,
                   refresh_tokens, rt_used, next_rt, code_grants, rotations, last>>

\* self.token_manager.create_refresh_token(...), and the response is returned
XRefresh(t) ==
    /\ th[t].pc = "x_refresh"
    /\ next_rt <= MaxTokens
    /\ refresh_tokens' = Put(refresh_tokens, next_rt,
           RefreshRecordOf(th[t].cid, UserOf(th[t].cid), th[t].jti))
    /\ next_rt' = next_rt + 1
    /\ code_grants' = Returned(code_grants, th[t].key, <<th[t].jti, next_rt>>)
    /\ Finish(t, CallBy(th[t].cid, "exchange", "ok", th[t].key, th[t].jti, next_rt, 0, None))
    /\ UNCHANGED <<now, default_token_expiry, revoked, dcr, deleted, client_registry, authorization_codes,
                   active_tokens, rt_used, jwts, next_jti, rotations>>

\* _handle_refresh_token_grant up to refresh_data = self.refresh_tokens.get(refresh_token)
RBegin(t, auth, refresh_token, resource) ==
    /\ th[t].pc = "idle"
    /\ LET cid == authenticate_client(auth)
       IN IF cid = 0
          THEN Finish(t, CallBy(0, "refresh", "invalid_client", 0, 0, 0, refresh_token, None))
          ELSE IF refresh_token \notin DOMAIN refresh_tokens
          THEN Finish(t, CallBy(cid, "refresh", "invalid_grant", 0, 0, 0, refresh_token, None))
          ELSE /\ th' = [th EXCEPT ![t] =
                           [Idle EXCEPT !.pc = "r_check", !.cid = cid, !.key = refresh_token,
                                        !.resource = resource,
                                        !.data = refresh_tokens[refresh_token]]]
               /\ UNCHANGED last
    /\ UNCHANGED <<now, default_token_expiry, revoked, dcr, deleted, client_registry, authorization_codes,
                   active_tokens, refresh_tokens, rt_used, jwts, next_jti, next_rt,
                   code_grants, rotations>>

\* if refresh_data["used"]: ... ; if now >= refresh_data["expires_at"]: ...
RCheck(t) ==
    /\ th[t].pc = "r_check"
    /\ IF th[t].key \in rt_used
       THEN Goto(t, "v_iter_a") /\ UNCHANGED last
       ELSE IF now >= th[t].data.expires_at
       THEN Finish(t, CallBy(th[t].cid, "refresh", "invalid_grant", 0, 0, 0, th[t].key, None))
       ELSE Goto(t, "r_mark") /\ UNCHANGED last
    /\ UNCHANGED <<now, default_token_expiry, revoked, dcr, deleted, client_registry, authorization_codes,
                   active_tokens, refresh_tokens, rt_used, jwts, next_jti, next_rt,
                   code_grants, rotations>>

\* refresh_data["used"] = True
RMark(t) ==
    /\ th[t].pc = "r_mark"
    /\ rt_used' = rt_used \cup {th[t].key}
    /\ Goto(t, "r_old")
    /\ UNCHANGED <<now, default_token_expiry, revoked, dcr, deleted, client_registry, authorization_codes,
                   active_tokens, refresh_tokens, jwts, next_jti, next_rt, code_grants,
                   rotations, last>>

\* if old_jti in self.active_tokens:
ROld(t) ==
    /\ th[t].pc = "r_old"
    /\ Goto(t, IF th[t].data.access_token_jti \in DOMAIN active_tokens
               THEN "r_old_del" ELSE "r_access")
    /\ UNCHANGED <<now, default_token_expiry, revoked, dcr, deleted, client_registry, authorization_codes,
                   active_tokens, refresh_tokens, rt_used, jwts, next_jti, next_rt,
                   code_grants, rotations, last>>

\* del self.active_tokens[old_jti]: a KeyError when the entry has gone meanwhile
ROldDel(t) ==
    /\ th[t].pc = "r_old_del"
    /\ IF th[t].data.access_token_jti \in DOMAIN active_tokens
       THEN /\ active_tokens' = Remove(active_tokens, th[t].data.access_token_jti)
            /\ Goto(t, "r_access")
            /\ UNCHANGED last
       ELSE /\ Finish(t, CallBy(th[t].cid, "refresh", "KeyError(active_tokens)",
                                0, 0, 0, th[t].key, None))
            /\ UNCHANGED active_tokens
    /\ UNCHANGED <<now, default_token_expiry, revoked, dcr, deleted, client_registry, authorization_codes,
                   refresh_tokens, rt_used, jwts, next_jti, next_rt, code_grants,
                   rotations>>

\* self.create_access_token(client_id, user_id, resource=resource)
RAccess(t) ==
    /\ th[t].pc = "r_access"
    /\ next_jti <= MaxTokens
    /\ LET expires_in == ClampExpiry(FALSE, 0)
       IN /\ active_tokens' = Put(active_tokens, next_jti,
                 TokenContextOf(next_jti, th[t].data.client_id, th[t].data.user_id,
                                None, th[t].resource, expires_in))
          /\ jwts' = jwts \cup {JwtOf(next_jti, th[t].data.client_id, th[t].data.user_id,
                                       None, th[t].resource, expires_in)}
    /\ next_jti' = next_jti + 1
    /\ th' = [th EXCEPT ![t].pc = "r_refresh", ![t].jti = next_jti]
    /\ UNCHANGED <<now, default_token_expiry, revoked, dcr, deleted, client_registry, authorization_codes,
                   refresh_tokens, rt_used, next_rt, code_grants, rotations, last>>

\* self.create_refresh_token(client_id, user_id, access_token_jti)
RRefresh(t) ==
    /\ th[t].pc = "r_refresh"
    /\ next_rt <= MaxTokens
    /\ refresh_tokens' = Put(refresh_tokens, next_rt,
           RefreshRecordOf(th[t].data.client_id, th[t].data.user_id, th[t].jti))
    /\ next_rt' = next_rt + 1
    /\ th' = [th EXCEPT ![t].pc = "r_del", ![t].rt = next_rt]
    /\ UNCHANGED <<now, default_token_expiry, revoked, dcr, deleted, client_registry, authorization_codes,
                   active_tokens, rt_used, jwts, next_jti, code_grants, rotations, last>>

\* RDel with a removal that tolerates a missing key (pop(refresh_token, None)).
RDel_pop(t) ==
    /\ th[t].pc = "r_del"
    /\ refresh_tokens' = Remove(refresh_tokens, th[t].key)
    /\ rotations' = Returned(rotations, th[t].key, <<th[t].jti, th[t].rt>>)
    /\ Finish(t, CallBy(th[t].cid, "refresh", "ok", 0, th[t].jti, th[t].rt, th[t].key, None))
    /\ UNCHANGED <<now, default_token_expiry, revoked, dcr, deleted, client_registry, authorization_codes,
                   active_tokens, rt_used, jwts, next_jti, next_rt, code_grants>>

\* del self.refresh_tokens[refresh_token], then the new pair is returned; the del
\* raises KeyError, which no caller catches, when the key has gone meanwhile.
RDel(t) ==
    /\ th[t].pc = "r_del"
    /\ IF th[t].key \in DOMAIN refresh_tokens
       THEN /\ refresh_tokens' = Remove(refresh_tokens, th[t].key)
            /\ rotations' = Returned(rotations, th[t].key, <<th[t].jti, th[t].rt>>)
            /\ Finish(t, CallBy(th[t].cid, "refresh", "ok", 0, th[t].jti, th[t].rt,
                                th[t].key, None))
       ELSE /\ Finish(t, CallBy(th[t].cid, "refresh", "KeyError(refresh_tokens)",
                                0, 0, 0, th[t].key, None))
            /\ UNCHANGED <<refresh_tokens, rotations>>
    /\ UNCHANGED <<now, default_token_expiry, revoked, dcr, deleted, client_registry, authorization_codes,
                   active_tokens, rt_used, jwts, next_jti, next_rt, code_grants>>

\* The keys of tokens that belong to the (client, user) pair of the frame's record.
Matching(tokens, data) ==
    {k \in DOMAIN tokens :
        tokens[k].client_id = data.client_id /\ tokens[k].user_id = data.user_id}

LeastOf(S) == CHOOSE x \in S : \A y \in S : x <= y

\* _revoke_all_client_tokens: for jti, token_context in self.active_tokens.items()
VIterA(t) ==
    /\ th[t].pc = "v_iter_a"
    /\ th' = [th EXCEPT ![t].pc = "v_collect_a", ![t].seen = DOMAIN active_tokens]
    /\ UNCHANGED <<now, default_token_expiry, revoked, dcr, deleted, client_registry, authorization_codes,
                   active_tokens, refresh_tokens, rt_used, jwts, next_jti, next_rt,
                   code_grants, rotations, last>>

\* The loop ends with jtis_to_remove collected, or with the RuntimeError of a
\* dictionary that changed size during the iteration.
VCollectA(t) ==
    /\ th[t].pc = "v_collect_a"
    /\ IF Cardinality(DOMAIN active_tokens) # Cardinality(th[t].seen)
       THEN Finish(t, CallBy(th[t].cid, "refresh", "RuntimeError", 0, 0, 0, th[t].key, None))
       ELSE /\ th' = [th EXCEPT ![t].pc = "v_del_a", ![t].seen = {},
                                ![t].todo = Matching(active_tokens, th[t].data)]
            /\ UNCHANGED last
    /\ UNCHANGED <<now, default_token_expiry, revoked, dcr, deleted, client_registry, authorization_codes,
                   active_tokens, refresh_tokens, rt_used, jwts, next_jti, next_rt,
                   code_grants, rotations>>

\* for jti in jtis_to_remove: del self.active_tokens[jti]
VDelA(t) ==
    /\ th[t].pc = "v_del_a"
    /\ IF th[t].todo = {}
       THEN Goto(t, "v_iter_r") /\ UNCHANGED <<active_tokens, last>>
       ELSE LET jti == LeastOf(th[t].todo)
            IN IF jti \in DOMAIN active_tokens
               THEN /\ active_tokens' = Remove(active_tokens, jti)
                    /\ th' = [th EXCEPT ![t].todo = @ \ {jti}]
                    /\ UNCHANGED last
               ELSE /\ Finish(t, CallBy(th[t].cid, "refresh", "KeyError(active_tokens)",
                                        0, 0, 0, th[t].key, None))
                    /\ UNCHANGED active_tokens
    /\ UNCHANGED <<now, default_token_expiry, revoked, dcr, deleted, client_registry, authorization_codes,
                   refresh_tokens, rt_used, jwts, next_jti, next_rt, code_grants,
                   rotations>>

\* for refresh_token, data in self.refresh_tokens.items()
VIterR(t) ==
    /\ th[t].pc = "v_iter_r"
    /\ th' = [th EXCEPT ![t].pc = "v_collect_r", ![t].seen = DOMAIN refresh_tokens]
    /\ UNCHANGED <<now, default_token_expiry, revoked, dcr, deleted, client_registry, authorization_codes,
                   active_tokens, refresh_tokens, rt_used, jwts, next_jti, next_rt,
                   code_grants, rotations, last>>

VCollectR(t) ==
    /\ th[t].pc = "v_collect_r"
    /\ IF Cardinality(DOMAIN refresh_tokens) # Cardinality(th[t].seen)
       THEN Finish(t, CallBy(th[t].cid, "refresh", "RuntimeError", 0, 0, 0, th[t].key, None))
       ELSE /\ th' = [th EXCEPT ![t].pc = "v_del_r", ![t].seen = {},
                                ![t].todo = Matching(refresh_tokens, th[t].data)]
            /\ UNCHANGED last
    /\ UNCHANGED <<now, default_token_expiry, revoked, dcr, deleted, client_registry, authorization_codes,
                   active_tokens, refresh_tokens, rt_used, jwts, next_jti, next_rt,
                   code_grants, rotations>>

\* for refresh_token in refresh_tokens_to_remove: del self.refresh_tokens[refresh_token];
\* then raise TokenError("Refresh token already used")
VDelR(t) ==
    /\ th[t].pc = "v_del_r"
    /\ IF th[t].todo = {}
       THEN /\ Finish(t, CallBy(th[t].cid, "refresh", "invalid_grant", 0, 0, 0,
                                th[t].key, None))
            /\ UNCHANGED refresh_tokens
       ELSE LET r == LeastOf(th[t].todo)
            IN IF r \in DOMAIN refresh_tokens
               THEN /\ refresh_tokens' = Remove(refresh_tokens, r)
                    /\ th' = [th EXCEPT ![t].todo = @ \ {r}]
                    /\ UNCHANGED last
               ELSE /\ Finish(t, CallBy(th[t].cid, "refresh", "KeyError(refresh_tokens)",
                                        0, 0, 0, th[t].key, None))
                    /\ UNCHANGED refresh_tokens
    /\ UNCHANGED <<now, default_token_expiry, revoked, dcr, deleted, client_registry, authorization_codes,
                   active_tokens, rt_used, jwts, next_jti, next_rt, code_grants,
                   rotations>>

\* A request is taken by the first thread that is free.
Free(t) == th[t].pc = "idle" /\ \A u \in Threads : u < t => th[u].pc # "idle"

\* The requests the threads make: a code that was issued, the registered redirect
\* URI, either verifier; a refresh token that was minted.
ExchangeSteps ==
    \E t \in Threads :
        \/ \E a \in ThreadAuths, code \in DOMAIN authorization_codes, v \in Verifiers :
              Free(t) /\ XBegin(t, a, code, "https://app.example/cb", v, None)
        \/ XCheck(t)
        \/ XMark(t)
        \/ XAccess(t)
        \/ XRefresh(t)

RefreshSteps ==
    \E t \in Threads :
        \/ \E a \in ThreadAuths, rt \in 1..(next_rt - 1) :
              Free(t) /\ RBegin(t, a, rt, None)
        \/ RCheck(t)
        \/ RMark(t)
        \/ ROld(t)
        \/ ROldDel(t)
        \/ RAccess(t)
        \/ RRefresh(t)
        \/ RDel(t)

RevokeAllSteps ==
    \E t \in Threads :
        \/ VIterA(t)
        \/ VCollectA(t)
        \/ VDelA(t)
        \/ VIterR(t)
        \/ VCollectR(t)
        \/ VDelR(t)

NextC ==
    \/ AuthorizeC
    \/ ExchangeSteps
    \/ RefreshSteps
    \/ RevokeAllSteps

SpecC == Init /\ [][NextC]_vars

----------------------------------------------------------------------------
(* Claims checked under Spec *)

JwtByJti(j) == CHOOSE t \in jwts : t.jti = j

Redeemed(code) == code \in DOMAIN code_grants /\ code_grants[code] # {}

Consumed(rt) == rt \in DOMAIN rotations

FromRefresh(rt) == \E k \in DOMAIN rotations : \E p \in rotations[k] : p[2] = rt

NothingMinted == UNCHANGED <<jwts, next_jti, next_rt>>

\* The step is an exchange_code call presenting a code that had been redeemed before.
ExchangeOfRedeemed ==
    /\ last'.op = "exchange"
    /\ now' = now
    /\ last'.code # 0
    /\ Redeemed(last'.code)

\* C1 as stated: once a code was exchanged, every later exchange_code call presenting
\* it fails with invalid_grant and issues no tokens, whatever the verifier.
C1_AsStated ==
    [][ExchangeOfRedeemed => (last'.result = "invalid_grant" /\ NothingMinted)]_vars

\* C1 amended: once a code was exchanged, every later exchange_code call presenting it
\* fails and issues no tokens, whatever the verifier: with invalid_grant when the
\* client authenticates, with invalid_client when it does not.
C1_SingleUseCode ==
    [][ExchangeOfRedeemed =>
          /\ last'.result = IF last'.client = 0 THEN "invalid_client" ELSE "invalid_grant"
          /\ NothingMinted
          /\ UNCHANGED <<active_tokens, refresh_tokens, code_grants>>]_vars

\* A redeemed code was presented again by the authenticated client and refused.
C1_Witness ==
    /\ last.op = "exchange"
    /\ last.result = "invalid_grant"
    /\ last.code # 0
    /\ Redeemed(last.code)

\* The step is a refresh_grant call presenting a refresh token that an earlier
\* successful refresh had consumed.
RefreshOfConsumed ==
    /\ last'.op = "refresh"
    /\ now' = now
    /\ Consumed(last'.arg)

\* The step is the first refresh_grant call presenting a token that a refresh returned.
RefreshFirstUse ==
    /\ last'.op = "refresh"
    /\ now' = now
    /\ FromRefresh(last'.arg)
    /\ ~Consumed(last'.arg)

\* C3 as stated: after a successful refresh every later refresh_grant with the original
\* token fails with invalid_grant, and the first use of the token it returned succeeds.
C3_AsStated ==
    [][/\ RefreshOfConsumed => last'.result = "invalid_grant"
       /\ RefreshFirstUse => last'.result = "ok"]_vars

\* C3 amended: after a successful refresh every later refresh_grant with the original
\* token fails and issues nothing (invalid_grant when the client authenticates,
\* invalid_client when not); the token it returned is accepted at most once, and its
\* first use by an authenticated client succeeds while it is in the refresh-token
\* index and unexpired.
C3_RefreshRotation ==
    [][/\ RefreshOfConsumed =>
             /\ last'.result = IF last'.client = 0 THEN "invalid_client" ELSE "invalid_grant"
             /\ NothingMinted
       /\ (/\ RefreshFirstUse
           /\ last'.client # 0
           /\ last'.arg \in DOMAIN refresh_tokens
           /\ now < refresh_tokens[last'.arg].expires_at) => last'.result = "ok"]_vars

\* A token returned by a refresh was used once, and its second use was refused.
C3_Witness ==
    /\ last.op = "refresh"
    /\ last.result = "invalid_grant"
    /\ Consumed(last.arg)
    /\ FromRefresh(last.arg)

\* C4: replaying a consumed refresh token fails and removes every access token and
\* every refresh token of its (client, subject) pair, the pair the earlier refresh
\* returned included.
C4_ReuseRevokesAll ==
    [][(RefreshOfConsumed /\ last'.client # 0) =>
          /\ last'.result = "invalid_grant"
          /\ \A p \in rotations[last'.arg] :
                LET owner == JwtByJti(p[1])
                IN /\ \A j \in DOMAIN active_tokens' :
                        ~(/\ active_tokens'[j].client_id = owner.client_id
                          /\ active_tokens'[j].user_id = owner.sub)
                   /\ \A r \in DOMAIN refresh_tokens' :
                        ~(/\ refresh_tokens'[r].client_id = owner.client_id
                          /\ refresh_tokens'[r].user_id = owner.sub)]_vars

\* C5: an exchange_code call on a used code fails with invalid_grant and revokes the
\* access token and the refresh token the earlier exchange of that code issued.
C5_CodeReuseRevokes ==
    [][(ExchangeOfRedeemed /\ last'.client # 0) =>
          /\ last'.result = "invalid_grant"
          /\ \A p \in code_grants[last'.code] :
                /\ p[1] \notin DOMAIN active_tokens'
                /\ p[2] \notin DOMAIN refresh_tokens']_vars

\* The code is unused, unexpired, issued to the client for the redirect URI, and its
\* challenge is the S256 digest of the verifier.
GoodCodeFor(client_id, code, redirect_uri, code_verifier) ==
    /\ code \in DOMAIN authorization_codes
    /\ ~authorization_codes[code].used
    /\ now <= authorization_codes[code].expires_at
    /\ authorization_codes[code].client_id = client_id
    /\ authorization_codes[code].redirect_uri = redirect_uri
    /\ authorization_codes[code].code_challenge_method = "S256"
    /\ authorization_codes[code].code_challenge = S256(code_verifier)

PublicClients ==
    {c \in DOMAIN client_registry :
        /\ client_registry[c].token_endpoint_auth_method = "none"
        /\ client_registry[c].client_secret = 0}

\* C7: a registered public client (method none, no secret) that began an authorization
\* with an S256 challenge exchanges the code, with the correct verifier and the same
\* redirect URI, for an access token and a refresh token.
C7_PublicClientFlow ==
    [][\A c \in PublicClients, code \in DOMAIN authorization_codes, res \in OptResources :
          (/\ GoodCodeFor(c, code, "https://app.example/cb", "v1")
           /\ handle_authorization_code_grant(ClientAuth("none", c, 0), code,
                                               "https://app.example/cb", "v1", res))
            => (last'.result = "ok" /\ last'.jti # 0 /\ last'.rt # 0)]_vars

\* C8: an access token that exchange_code or refresh_grant returned, unexpired and
\* not revoked, passes validate_resource_access called with no resource and no scope.
C8_IssuedTokenValidates ==
    [][\A t \in jwts :
          (/\ now < t.exp
           /\ t.jti \in DOMAIN active_tokens
           /\ validate_resource_request(t, None, None)) => last'.result = "ok"]_vars

\* C9: in every reachable state validate_access_token(token, resource=r) fails for
\* every r that differs from the resource indicator the token was issued for.
C9_AudienceBinding ==
    \A t \in jwts : \A r \in Resources \cup {Issuer} :
        r # t.resource => validate_access_token(t, r) # "ok"

\* A live token issued for https://a was presented for https://b and refused.
C9_Witness ==
    /\ last.op = "validate"
    /\ last.res = "https://b"
    /\ last.result = "invalid_token"
    /\ \E t \in jwts :
          /\ t.jti = last.arg
          /\ t.resource = "https://a"
          /\ t.jti \in DOMAIN active_tokens
          /\ now < t.exp

\* The token is one this server issued, is unexpired and is in the active-token index.
LiveToken(t) ==
    /\ t \in jwts
    /\ now < t.exp
    /\ t.jti \in DOMAIN active_tokens

\* C11: validate_resource_access(token, required_scope=s) with a non-empty s and a live
\* token whose scope set does not contain all of s (a token without scope has the empty
\* scope set) fails with insufficient_scope.
C11_ScopeEnforced ==
    [][\A t \in jwts :
          (/\ LiveToken(t)
           /\ ~(ScopeSet("write") \subseteq ScopeSet(t.scope))
           /\ validate_resource_request(t, None, "write"))
            => last'.result = "insufficient_scope"]_vars

\* The step is a begin_authorization call.
AuthorizeStep == last'.op = "authorize" /\ now' = now

\* C14: begin_authorization stores a new code record and returns a code only if the
\* client id is in the registry, redirect_uri is one of the client's registered URIs,
\* code_challenge is non-empty and code_challenge_method is S256 or plain; in every
\* other case it fails with an error and the code store is unchanged.
C14_AuthorizeChecks ==
    [][AuthorizeStep =>
          IF last'.result = "ok"
          THEN /\ last'.code \notin DOMAIN authorization_codes
               /\ DOMAIN authorization_codes' = DOMAIN authorization_codes \cup {last'.code}
               /\ \A c \in DOMAIN authorization_codes :
                     authorization_codes'[c] = authorization_codes[c]
               /\ LET rec == authorization_codes'[last'.code]
                  IN /\ rec.client_id \in DOMAIN client_registry
                     /\ rec.redirect_uri \in client_registry[rec.client_id].redirect_uris
                     /\ rec.code_challenge # ""
                     /\ rec.code_challenge_method \in {"S256", "plain"}
                     /\ ~rec.used
          ELSE /\ last'.result \in {"invalid_client", "invalid_request"}
               /\ UNCHANGED authorization_codes]_vars

\* A code is in the store, and a later request was refused and left the store alone.
C14_Witness ==
    /\ last.op = "authorize"
    /\ last.result = "invalid_request"
    /\ DOMAIN authorization_codes # {}

\* C15: orchestrator revoke called with credentials that fail authentication reports
\* success and removes nothing: both token indices are as before the call.
C15_RevokeUnauthenticated ==
    [][(last'.op = "revoke" /\ now' = now /\ last'.client = 0) =>
          /\ last'.result = "true"
          /\ UNCHANGED <<active_tokens, refresh_tokens>>]_vars

\* A caller with a wrong secret presented a refresh token that is in the index, was
\* told "revoked", and the token is still there.
C15_Witness ==
    /\ last.op = "revoke"
    /\ last.client = 0
    /\ last.result = "true"
    /\ last.rt \in DOMAIN refresh_tokens

\* The step is an exchange_code call.
ExchangeStep == last'.op = "exchange" /\ now' = now

\* The conditions on the code: it is in the code store, unused, not expired, issued to
\* the client, for the redirect URI presented, and the verifier presented matches the
\* stored challenge under the stored method.
CodeConditions(client, code, redirect_uri, code_verifier) ==
    /\ code \in DOMAIN authorization_codes
    /\ ~authorization_codes[code].used
    /\ now <= authorization_codes[code].expires_at
    /\ authorization_codes[code].client_id = client
    /\ authorization_codes[code].redirect_uri = redirect_uri
    /\ verify_code_challenge_outcome(code_verifier, authorization_codes[code].code_challenge,
                                     authorization_codes[code].code_challenge_method) = "True"

\* C13: exchange_code returns tokens only if, when it was called, the client
\* authenticated and the code was in the store, unused, not expired (its lifetime is 10
\* minutes, the last instant included), issued to that client, for the redirect URI
\* presented, with the verifier matching the stored challenge under the stored method;
\* when the client authenticated and a condition on the code fails, the outcome is
\* invalid_grant.
C13_ExchangeConditions ==
    [][ExchangeStep =>
          /\ last'.result = "ok" =>
                /\ last'.client # 0
                /\ CodeConditions(last'.client, last'.code, last'.redirect_uri,
                                  last'.code_verifier)
          /\ (/\ last'.client # 0
              /\ ~CodeConditions(last'.client, last'.code, last'.redirect_uri,
                                 last'.code_verifier)) => last'.result = "invalid_grant"]_vars

\* An authenticated client presented an unused, unexpired code of its own, issued with
\* a plain challenge, with the right verifier and another redirect URI, and was refused.
C13_Witness ==
    /\ last.op = "exchange"
    /\ last.result = "invalid_grant"
    /\ last.client # 0
    /\ last.code \in DOMAIN authorization_codes
    /\ CodeConditions(last.client, last.code, "https://app.example/cb", last.code_verifier)
    /\ last.redirect_uri = "https://other.example/cb"
    /\ authorization_codes[last.code].code_challenge_method = "plain"

----------------------------------------------------------------------------
(* Claims checked under SpecR *)

\* A revoked access token is out of the active-token index and fails
\* validate_access_token for every resource; a revoked refresh token fails the
\* checks of refresh_access_token.
RevokedUnusable ==
    /\ \A t \in jwts : <<"access", t.jti>> \in revoked =>
          /\ t.jti \notin DOMAIN active_tokens
          /\ \A res \in OptResources : validate_access_token(t, res) # "ok"
    /\ \A rt \in 1..(next_rt - 1) : <<"refresh", rt>> \in revoked =>
          /\ rt \notin DOMAIN refresh_tokens
          /\ refresh_check(rt) # "ok"

\* A refresh grant that presents a revoked refresh token.
RefreshOfRevoked == last'.op = "refresh" /\ now' = now /\ <<"refresh", last'.arg>> \in revoked

\* C12 as the spec states it: after Token Manager revoke returns true for a token, the
\* token is unusable in every later state: a revoked access token fails
\* validate_access_token, and refresh_grant with a revoked refresh token fails with
\* invalid_grant, whoever calls.
C12_AsStated ==
    /\ []RevokedUnusable
    /\ [][RefreshOfRevoked => last'.result = "invalid_grant" /\ NothingMinted]_vars

\* C12 (amended): after Token Manager revoke returns true for a token, the token is
\* unusable in every later state: a revoked access token fails validate_access_token,
\* and refresh_grant with a revoked refresh token mints nothing and fails, with
\* invalid_grant when the client is authenticated and with invalid_client when its
\* credentials are rejected.
C12_RevokedUnusable ==
    /\ []RevokedUnusable
    /\ [][RefreshOfRevoked =>
             /\ last'.result = IF last'.client = 0 THEN "invalid_client" ELSE "invalid_grant"
             /\ NothingMinted]_vars

\* An access token and a refresh token have been revoked, time has passed, and the
\* authenticated client that presented the revoked refresh token was refused.
C12_Witness ==
    /\ last.op = "refresh"
    /\ last.client # 0
    /\ last.result = "invalid_grant"
    /\ <<"refresh", last.arg>> \in revoked
    /\ \E t \in jwts : <<"access", t.jti>> \in revoked
    /\ now > 0

\* The <<jti, refresh token>> pairs that were issued together, by a code exchange or by
\* a refresh.
IssuedPairs ==
    UNION {code_grants[c] : c \in DOMAIN code_grants}
        \cup UNION {rotations[r] : r \in DOMAIN rotations}

\* The access tokens issued together with a refresh token that has since been
\* presented in a successful refresh.
Superseded == {p[1] : p \in {q \in IssuedPairs : q[2] \in DOMAIN rotations}}

\* C28: after a successful refresh, the access token that was issued together with the
\* presented refresh token is no longer in the active-token index and fails
\* validate_access_token, even though its own expiry time has not passed.
C28_OldAccessTokenRetired ==
    \A t \in jwts :
        t.jti \in Superseded =>
           /\ t.jti \notin DOMAIN active_tokens
           /\ \A res \in OptResources : validate_access_token(t, res) # "ok"

\* A refresh has just succeeded and the access token issued with the refresh token it
\* presented is unexpired and out of the index; so is the one of an earlier refresh.
C28_Witness ==
    /\ last.op = "refresh"
    /\ last.result = "ok"
    /\ \E t \in jwts :
          /\ <<t.jti, last.arg>> \in IssuedPairs
          /\ now < t.exp
          /\ t.jti \notin DOMAIN active_tokens
    /\ Cardinality(Superseded) = 2

\* The pairs returned for the refresh tokens of the pairs in S.
RotatedFrom(S) == UNION {rotations[p[2]] : p \in {q \in S : q[2] \in DOMAIN rotations}}

\* The <<jti, refresh token>> pairs descended from a code: the pairs its exchanges
\* returned and, through the chain of refreshes, the pairs returned for their refresh
\* tokens. A chain has at most MaxTokens links.
Descended(code) ==
    LET S0 == code_grants[code]
        S1 == S0 \cup RotatedFrom(S0)
        S2 == S1 \cup RotatedFrom(S1)
    IN S2 \cup RotatedFrom(S2)

LiveAccess(code) == {p[1] : p \in Descended(code)} \cap DOMAIN active_tokens

LiveRefresh(code) == {p[2] : p \in Descended(code)} \cap DOMAIN refresh_tokens

\* C38: when exchange_code, refresh_grant and revoke each execute atomically (one at a
\* time, in any order), then in every reachable state each successfully exchanged
\* authorization code has at most one live refresh token and at most one live access
\* token descended from it through the chain of refreshes.
C38_OneLivePairPerCode ==
    \A code \in DOMAIN code_grants :
        /\ Cardinality(LiveAccess(code)) <= 1
        /\ Cardinality(LiveRefresh(code)) <= 1

\* A code was exchanged and its refresh token rotated twice: three pairs descend from
\* the code and exactly the last one is live.
C38_Witness ==
    \E code \in DOMAIN code_grants :
        /\ Cardinality(Descended(code)) = 3
        /\ Cardinality(LiveAccess(code)) = 1
        /\ Cardinality(LiveRefresh(code)) = 1
        /\ last.op = "refresh"
        /\ LiveAccess(code) = {last.jti}
        /\ LiveRefresh(code) = {last.rt}

----------------------------------------------------------------------------
(* Claims checked under SpecB *)

\* The step is a successful exchange_code call whose token request carried res.
ExchangedWith(res) ==
    /\ last'.op = "exchange"
    /\ last'.result = "ok"
    /\ handle_authorization_code_grant(last'.auth, last'.code, last'.redirect_uri,
                                       last'.code_verifier, res)

\* C29: the access token minted by exchange_code is bound to the resource indicator
\* given in the token request when one is given, and otherwise to the resource
\* indicator stored with the code at begin_authorization; it is bound to no resource
\* only when both are absent.
C29_ExchangeResourceBinding ==
    [][\A res \in ExchangeResources :
          ExchangedWith(res) =>
             LET stored == authorization_codes[last'.code].resource
                 context == active_tokens'[last'.jti]
                 expected == IF Truthy(res) THEN res
                             ELSE IF Truthy(stored) THEN stored ELSE None
             IN /\ Truthy(expected) => context.resource = expected
                /\ ~Truthy(expected) => ~Truthy(context.resource)
                /\ \A t \in jwts' :
                      t.jti = last'.jti =>
                         /\ t.resource = expected
                         /\ t.aud = IF Truthy(expected) THEN expected ELSE Issuer]_vars

\* Both requests named an indicator and the token carries the token request's.
C29_Witness ==
    /\ last.op = "exchange"
    /\ last.result = "ok"
    /\ authorization_codes[last.code].resource = "https://a"
    /\ active_tokens[last.jti].resource = "https://b"
    /\ \E t \in jwts : t.jti = last.jti /\ t.resource = "https://b"

\* The fallback case: no indicator in the token request, the code's indicator is used.
C29_WitnessFallback ==
    /\ last.op = "exchange"
    /\ last.result = "ok"
    /\ authorization_codes[last.code].resource = "https://a"
    /\ active_tokens[last.jti].resource = "https://a"

\* The unbound case: an empty indicator in both requests.
C29_WitnessUnbound ==
    /\ last.op = "exchange"
    /\ last.result = "ok"
    /\ authorization_codes[last.code].resource = ""
    /\ ~Truthy(active_tokens[last.jti].resource)
    /\ \E t \in jwts : t.jti = last.jti /\ t.resource = None /\ t.aud = Issuer

----------------------------------------------------------------------------
(* Claims checked under SpecI *)

IntrospectStep == last'.op = "introspect" /\ now' = now

\* C16: for every token that is not a currently valid access token (malformed, wrongly
\* signed, wrong issuer, expired, revoked, or a refresh token) and for every call whose
\* client authentication fails, introspect returns exactly {active: false} with no
\* other field, so the response is the same in all of these cases.
C16_IntrospectInactive ==
    [][(IntrospectStep /\ (last'.client = 0 \/ ~LiveToken(last'.arg)))
          => last'.result = "inactive" /\ last'.response = [active |-> FALSE]]_vars

\* An authenticated client introspected an unexpired access token that had been
\* revoked and got {active: false}.
C16_Witness ==
    /\ last.op = "introspect"
    /\ last.client # 0
    /\ last.arg \in jwts
    /\ now < last.arg.exp
    /\ <<"access", last.arg.jti>> \in revoked
    /\ last.response = [active |-> FALSE]

----------------------------------------------------------------------------
(* Claims checked under SpecA *)

\* The client is registered, has a registered secret, and the secret presented is it.
SecretMatches(auth) ==
    /\ auth.client_id \in DOMAIN client_registry
    /\ client_registry[auth.client_id].client_secret # 0
    /\ auth.client_secret # 0
    /\ auth.client_secret = client_registry[auth.client_id].client_secret

\* C21: authenticate with client_secret_basic or client_secret_post returns an
\* authenticated ClientContext for client c if and only if c is in the client registry,
\* c has a registered secret, and the presented secret equals the registered secret; in
\* every other case it fails and returns no context.
C21_SecretAuthentication ==
    (last.op = "authenticate" /\ last.auth.method \in SecretMethods) =>
        IF SecretMatches(last.auth)
        THEN last.result = "ok" /\ last.client = last.auth.client_id
        ELSE last.result = "ClientAuthenticationError" /\ last.client = 0

\* Client 3, registered for client_secret_post, presented its secret in a
\* client_secret_basic header and was authenticated.
C21_Witness ==
    /\ last.op = "authenticate"
    /\ last.auth = ClientAuth("client_secret_basic", 3, 3)
    /\ last.client = 3

\* The credentials name a client that is not registered.
UnknownClient(auth) ==
    /\ auth.method \in SecretMethods
    /\ auth.client_secret # 0
    /\ auth.client_id \notin DOMAIN client_registry

\* The credentials name a registered client and carry a secret that is not its own.
WrongSecret(auth) ==
    /\ auth.method \in SecretMethods
    /\ auth.client_secret # 0
    /\ auth.client_id \in DOMAIN client_registry
    /\ client_registry[auth.client_id].client_secret # 0
    /\ auth.client_secret # client_registry[auth.client_id].client_secret

\* A call whose outcome carries the failure of client authentication: authenticate
\* itself, or a token request that ended in invalid_client.
AuthFailure(call) ==
    \/ call.op = "authenticate" /\ call.result = "ClientAuthenticationError"
    \/ call.op = "exchange" /\ call.result = "invalid_client"

\* C22: the failure that client authentication returns to its caller, and that the
\* orchestrator passes on as the description of its invalid_client error, is the same
\* for an unknown client id as for a registered client id presented with a wrong secret:
\* of two calls in a row, one of each kind, the descriptions are equal.
C22_FailureIndistinguishable ==
    [][(/\ AuthFailure(last) /\ UnknownClient(last.auth)
        /\ AuthFailure(last') /\ WrongSecret(last'.auth))
          => last'.description = last.description]_vars

----------------------------------------------------------------------------
(* Claims checked under SpecG *)

\* A step of update_client or delete_client.
ManageStep == last'.op \in {"update", "delete"} /\ now' = now

\* The registration token exists, is bound to the client id and has not expired.
TokenGood(token, client_id) ==
    /\ token \in DOMAIN dcr.registration_tokens
    /\ dcr.registration_tokens[token].client_id = client_id
    /\ now <= dcr.registration_tokens[token].expires_at

\* C23: update and delete change the client registry only when the presented
\* registration token exists, is bound to the very client id being addressed, and has
\* not expired; a registration token issued for client A never permits updating or
\* deleting client B, and on a rejected call the stored registrations are unchanged.
C23_RegistrationTokenGuards ==
    [][ManageStep =>
          /\ dcr'.registered_clients # dcr.registered_clients
                => TokenGood(last'.token, last'.client_id)
          /\ ~TokenGood(last'.token, last'.client_id) => last'.result = "invalid_token"
          /\ last'.result # "ok" => dcr'.registered_clients = dcr.registered_clients
          /\ \A b \in DOMAIN dcr.registered_clients :
                b # last'.client_id =>
                   /\ b \in DOMAIN dcr'.registered_clients
                   /\ dcr'.registered_clients[b] = dcr.registered_clients[b]]_vars

\* The unexpired token of one registered client was presented to update another
\* registered client and refused.
C23_Witness ==
    /\ last.op = "update"
    /\ last.result = "invalid_token"
    /\ last.client_id \in DOMAIN dcr.registered_clients
    /\ last.token \in DOMAIN dcr.registration_tokens
    /\ dcr.registration_tokens[last.token].client_id # last.client_id
    /\ dcr.registration_tokens[last.token].client_id \in DOMAIN dcr.registered_clients
    /\ now <= dcr.registration_tokens[last.token].expires_at
    /\ last.data.redirect_uris = {"https://other.example/cb"}

\* C24: after any sequence of register, update and delete calls, every redirect URI of
\* every stored ClientRegistration either uses the https scheme or has a loopback host
\* (localhost or 127.0.0.1).
C24_RedirectUrisSecure ==
    \A c \in DOMAIN dcr.registered_clients :
        \A u \in dcr.registered_clients[c].redirect_uris :
            \/ urlparse(u).scheme = "https"
            \/ urlparse(u).hostname = "localhost"
            \/ urlparse(u).hostname = "127.0.0.1"

\* A client's redirect URIs were replaced by an update with a loopback http URI, while
\* another client was registered.
C24_Witness ==
    /\ last.op = "update"
    /\ last.result = "ok"
    /\ dcr.registered_clients[last.client_id].redirect_uris = {"http://127.0.0.1:8080/cb"}
    /\ \E c \in DOMAIN dcr.registered_clients : c # last.client_id

RegisterStep == last'.op = "register" /\ last'.result = "ok" /\ now' = now

\* C25: register issues a client secret (with a secret expiry) exactly when the declared
\* token-endpoint auth method is client_secret_basic or client_secret_post
\* (client_secret_basic being the method when none is declared); for private_key_jwt,
\* tls_client_auth and none, neither the stored registration nor the returned payload
\* carries a secret.
C25_SecretIssuedForSecretMethods ==
    [][RegisterStep =>
          LET declared == last'.data.token_endpoint_auth_method
              method == IF declared = None THEN "client_secret_basic" ELSE declared
              stored == dcr'.registered_clients[last'.client_id]
          IN /\ stored.token_endpoint_auth_method = method
             /\ IF method \in {"client_secret_basic", "client_secret_post"}
                THEN /\ stored.client_secret # 0
                     /\ stored.client_secret_expires_at = now + ClientSecretExpiry
                     /\ "client_secret" \in DOMAIN last'.response
                     /\ last'.response.client_secret = stored.client_secret
                     /\ last'.response.client_secret_expires_at = now + ClientSecretExpiry
                ELSE /\ method \in {"private_key_jwt", "tls_client_auth", "none"}
                     /\ stored.client_secret = 0
                     /\ "client_secret" \notin DOMAIN last'.response
                     /\ "client_secret_expires_at" \notin DOMAIN last'.response]_vars

\* A client was registered for private_key_jwt and the payload carries no secret, after
\* a client registered without a declared method had got one.
C25_Witness ==
    /\ last.op = "register"
    /\ last.result = "ok"
    /\ last.data.token_endpoint_auth_method = "private_key_jwt"
    /\ "client_secret" \notin DOMAIN last.response
    /\ \E c \in DOMAIN dcr.registered_clients :
          /\ dcr.registered_clients[c].token_endpoint_auth_method = "client_secret_basic"
          /\ dcr.registered_clients[c].client_secret # 0

\* The clients that were deleted, and the tokens their deletions presented.
DeletedClients == {d[1] : d \in deleted}
OldTokens == {d[2] : d \in deleted}

\* C26: after delete(client_id, registration_token) succeeds, get(client_id) returns
\* not-found, no registration token bound to that client id remains in the registry, and
\* every later update or delete that presents the old token fails with invalid_token.
C26_DeleteIsFinal ==
    /\ [](\A c \in DeletedClients :
             /\ c \notin DOMAIN dcr.registered_clients
             /\ \A t \in DOMAIN dcr.registration_tokens :
                   dcr.registration_tokens[t].client_id # c)
    /\ [][(last'.op = "get" /\ now' = now /\ last'.client_id \in DeletedClients)
             => last'.result = "not_found" /\ last'.response = NoResponse]_vars
    /\ [][(ManageStep /\ last'.token \in OldTokens) => last'.result = "invalid_token"]_vars

\* A client was deleted while another stayed registered, and a later update of the
\* deleted client with its old token was refused.
C26_Witness ==
    /\ last.op = "update"
    /\ <<last.client_id, last.token>> \in deleted
    /\ last.result = "invalid_token"
    /\ dcr.registered_clients # <<>>

\* The step is a successful update_client call.
UpdatedStep == last'.op = "update" /\ last'.result = "ok" /\ now' = now

\* C36: a successful registry update changes only the registration fields that are
\* present in the patch; every field the patch omits (in particular grant_types,
\* response_types and token_endpoint_auth_method) keeps the value it had before the
\* update.
C36_UpdateKeepsOmittedFields ==
    [][UpdatedStep =>
          LET data == last'.data
              old == dcr.registered_clients[last'.client_id]
              new == dcr'.registered_clients[last'.client_id]
          IN /\ ~HasRedirectUris(data) => new.redirect_uris = old.redirect_uris
             /\ data.grant_types = {} => new.grant_types = old.grant_types
             /\ data.token_endpoint_auth_method = None =>
                   new.token_endpoint_auth_method = old.token_endpoint_auth_method
             /\ new.client_id = old.client_id
             /\ new.client_secret = old.client_secret
             /\ new.client_secret_expires_at = old.client_secret_expires_at
             /\ new.registration_access_token = old.registration_access_token]_vars

\* C37: after any sequence of register and update calls, a stored ClientRegistration
\* has a client secret if and only if its token_endpoint_auth_method is
\* client_secret_basic or client_secret_post.
C37_SecretIffSecretMethod ==
    \A c \in DOMAIN dcr.registered_clients :
        (dcr.registered_clients[c].client_secret # 0)
            <=> (dcr.registered_clients[c].token_endpoint_auth_method
                    \in {"client_secret_basic", "client_secret_post"})

----------------------------------------------------------------------------
(* Claims checked under SpecV *)

TmRevokeStep == last'.op = "tm_revoke" /\ now' = now

\* The token presented is a known access token or a known refresh token.
KnownToken(call) ==
    call.jti \in DOMAIN active_tokens \/ call.rt \in DOMAIN refresh_tokens

\* C27: Token Manager revoke never raises: it returns true and removes the entry when
\* the token is a known access token or refresh token, returns false and changes nothing
\* when the token is unknown (including arbitrary strings that are not tokens), and a
\* second revoke of the same token returns false and leaves both indices as the first
\* call left them.
C27_RevokeNeverRaises ==
    [][TmRevokeStep =>
          /\ last'.result \in {"true", "false"}
          /\ IF KnownToken(last')
             THEN /\ last'.result = "true"
                  /\ active_tokens' = Remove(active_tokens, last'.jti)
                  /\ refresh_tokens' = Remove(refresh_tokens, last'.rt)
             ELSE /\ last'.result = "false"
                  /\ UNCHANGED <<active_tokens, refresh_tokens>>
          /\ (/\ last.op = "tm_revoke" /\ last.result = "true"
              /\ last'.jti = last.jti /\ last'.rt = last.rt)
                => last'.result = "false" /\ UNCHANGED <<active_tokens, refresh_tokens>>]_vars

\* The entries the step took out of the two indices.
RemovedAccess == DOMAIN active_tokens \ DOMAIN active_tokens'

RemovedRefresh == DOMAIN refresh_tokens \ DOMAIN refresh_tokens'

\* C40: Token Manager revoke removes at most the one entry that the presented token
\* names and leaves every other entry of both indices unchanged; in particular revoking
\* an access token leaves the refresh token issued alongside it in the refresh-token
\* index, and revoking a refresh token leaves its linked access token in the
\* active-token index.
C40_RevokeRemovesOneEntry ==
    [][TmRevokeStep =>
          /\ Cardinality(RemovedAccess) + Cardinality(RemovedRefresh) <= 1
          /\ RemovedAccess \subseteq {last'.jti}
          /\ RemovedRefresh \subseteq {last'.rt}
          /\ DOMAIN active_tokens' \subseteq DOMAIN active_tokens
          /\ DOMAIN refresh_tokens' \subseteq DOMAIN refresh_tokens
          /\ \A j \in DOMAIN active_tokens' : active_tokens'[j] = active_tokens[j]
          /\ \A r \in DOMAIN refresh_tokens' : refresh_tokens'[r] = refresh_tokens[r]
          /\ last'.jti # 0 => refresh_tokens' = refresh_tokens
          /\ last'.rt # 0 => active_tokens' = active_tokens]_vars

\* An access token was revoked and the refresh token issued alongside it is still in
\* the refresh-token index.
C40_Witness ==
    /\ last.op = "tm_revoke"
    /\ last.result = "true"
    /\ last.jti # 0
    /\ last.jti \notin DOMAIN active_tokens
    /\ \E r \in DOMAIN refresh_tokens : refresh_tokens[r].access_token_jti = last.jti

\* A refresh token was revoked and its linked access token is still in the
\* active-token index.
C40_WitnessRefresh ==
    /\ last.op = "tm_revoke"
    /\ last.result = "true"
    /\ last.rt # 0
    /\ last.rt \notin DOMAIN refresh_tokens
    /\ \E p \in IssuedPairs : p[2] = last.rt /\ p[1] \in DOMAIN active_tokens

----------------------------------------------------------------------------
(* Claims checked under SpecF *)

\* The step is an exchange_code call that failed.
FailedExchangeStep ==
    /\ last'.op = "exchange"
    /\ last'.result # "ok"
    /\ now' = now

\* The code is in the store, unused and unexpired.
Redeemable(code) ==
    /\ code \in DOMAIN authorization_codes
    /\ ~authorization_codes[code].used
    /\ ~(now > authorization_codes[code].expires_at)

\* C35: every exchange_code call that fails (failed client authentication, unknown
\* code, used code, expired code, client or redirect URI mismatch, wrong or malformed
\* verifier) leaves the code store and both token indices unchanged; in particular a
\* failed attempt on an unused code does not consume it, and the code can still be
\* redeemed by a later correct exchange before it expires.
C35_FailedExchangeChangesNothing ==
    [][FailedExchangeStep =>
          /\ authorization_codes' = authorization_codes
          /\ active_tokens' = active_tokens
          /\ refresh_tokens' = refresh_tokens
          /\ \A c \in DOMAIN authorization_codes :
                (c = last'.code /\ Redeemable(c)) =>
                   /\ Redeemable(c)'
                   /\ \A a \in ClientAuths, v \in PresentedVerifiers, r \in RedirectUris :
                         code_grant_check(authenticate_client(a), c, r, v)'
                           = code_grant_check(authenticate_client(a), c, r, v)]_vars

\* The confidential client presented a malformed verifier for its unused, unexpired
\* code: the call failed with invalid_grant and the code is still redeemable with the
\* right verifier.
C35_Witness ==
    /\ last.op = "exchange"
    /\ last.result = "invalid_grant"
    /\ last.client = 1
    /\ last.code_verifier \in MalformedVerifiers
    /\ Redeemable(last.code)
    /\ code_grant_check(1, last.code, authorization_codes[last.code].redirect_uri, "v1") = "ok"

----------------------------------------------------------------------------
(* Claims checked under SpecM *)

\* The step is a refresh_grant call that returned a new token pair.
RefreshedStep ==
    /\ last'.op = "refresh"
    /\ last'.result = "ok"
    /\ now' = now
    /\ last'.arg \in DOMAIN refresh_tokens
    /\ last'.jti \notin DOMAIN active_tokens

\* C32: refresh_grant returns a new token pair only if the refresh token presented was
\* issued to the client that authenticated in that same call; a caller that
\* authenticates as client B never obtains tokens from a refresh token issued to
\* client A.
C32_RefreshBoundToClient ==
    [][RefreshedStep => refresh_tokens[last'.arg].client_id = last'.client]_vars

\* The access token that the refresh of this step replaces: the one issued together
\* with the refresh token presented.
ReplacedJti == refresh_tokens[last'.arg].access_token_jti

\* The scope test of validate_resource_request passes: it is made only when a scope
\* is required and the token carries one.
ScopeTestPasses(scope, required_scope) ==
    ~(required_scope # None /\ scope # None /\ ~(ScopeSet(required_scope) \subseteq ScopeSet(scope)))

\* C33: the access token issued by a successful refresh carries the same scope as the
\* access token it replaces, so a refresh never yields a token that passes a
\* validate_resource_access required_scope check that the replaced token would have
\* failed.
C33_RefreshKeepsScope ==
    [][(RefreshedStep /\ ReplacedJti \in DOMAIN active_tokens) =>
          LET old == active_tokens[ReplacedJti]
              new == active_tokens'[last'.jti]
          IN /\ new.scope = old.scope
             /\ \A s \in {"read", "write"} :
                   ScopeTestPasses(new.scope, s) => ScopeTestPasses(old.scope, s)]_vars

NoIssuedTokenValidates ==
    \A t \in jwts, r \in OptResources : validate_access_token(t, r) # "ok"

----------------------------------------------------------------------------
(* Claims checked under SpecL *)

\* The authorization code is in the store and its expiry time has passed.
ExpiredCode(c) ==
    /\ c \in DOMAIN authorization_codes
    /\ now > authorization_codes[c].expires_at

\* C31: every authorization code record whose expiry has passed is eventually removed
\* from the code store (by a sweep or by a later operation), so the code store does
\* not retain expired records forever.
C31_ExpiredCodesCollected ==
    \A c \in 1..MaxCodes : ExpiredCode(c) ~> (c \notin DOMAIN authorization_codes)

\* No step of any handler takes a record out of the code store.
CodeStoreOnlyGrows ==
    [][\A c \in DOMAIN authorization_codes : c \in DOMAIN authorization_codes']_vars

----------------------------------------------------------------------------
(* Claims checked under SpecC *)

\* C2: when two exchange_code calls for the same unused, unexpired code run with their
\* steps interleaved, each with valid credentials, the matching redirect URI and the
\* correct verifier, no interleaving lets both return tokens: at most one token pair
\* is ever returned for a code.
C2_OneRedemption ==
    \A code \in DOMAIN code_grants : Cardinality(code_grants[code]) <= 1

\* C6: when two refresh calls presenting the same unused, unexpired refresh token run
\* with their steps interleaved, at most one of them returns a new access/refresh
\* token pair.
C6_OneRotation ==
    \A refresh_token \in DOMAIN rotations : Cardinality(rotations[refresh_token]) <= 1

\* Two refresh calls raced on one refresh token, both passed its tests and minted a
\* pair; one returned its pair and the other ended in the KeyError of the final del.
C6_Witness ==
    /\ last.op = "refresh"
    /\ last.result = "KeyError(refresh_tokens)"
    /\ last.arg \in DOMAIN rotations
    /\ Cardinality(rotations[last.arg]) = 1
    /\ Cardinality({j \in DOMAIN active_tokens : j \in 2..MaxTokens}) = 2

\* The error codes of the specification's taxonomy, and the normal returns.
Taxonomy ==
    {"invalid_request", "invalid_client", "invalid_grant", "unsupported_grant_type",
     "insufficient_scope", "invalid_token", "server_error"}

NormalReturns == {"ok", "true", "false", "active", "inactive"}

\* C17: every public orchestrator operation, under every interleaving with other
\* calls, either returns normally or fails with an error whose code is one of
\* invalid_request, invalid_client, invalid_grant, unsupported_grant_type,
\* insufficient_scope, invalid_token, server_error; no raw internal exception reaches
\* the caller.
C17_ErrorTaxonomy == last.result \in NormalReturns \cup Taxonomy

\* C18: the used flag of an authorization code record is monotonic: once true, it is
\* never reset to false and the record is never replaced by an unused one, also when
\* minting fails or the request is abandoned after the flag was set.
C18_UsedMonotonic ==
    [][\A code \in DOMAIN authorization_codes :
          authorization_codes[code].used =>
              /\ code \in DOMAIN authorization_codes'
              /\ authorization_codes'[code].used]_vars

\* A request has set the used flag of its code and has not minted a token yet, while
\* another request presenting the same code was refused.
C18_Witness ==
    \E t \in Threads :
        /\ th[t].pc = "x_access"
        /\ authorization_codes[th[t].key].used
        /\ code_grants[th[t].key] = {}
        /\ last.op = "exchange"
        /\ last.code = th[t].key
        /\ last.result = "invalid_grant"
        /\ last.client # 0

\* Thread t ends a refresh call in this step with a failure.
RefreshFails(t) ==
    /\ th[t].pc # "idle"
    /\ th'[t].pc = "idle"
    /\ last'.op = "refresh"
    /\ last'.result # "ok"

\* C39: whenever a refresh call fails, for any reason and under any interleaving with
\* other refresh, revoke or sweep calls, no access token and no refresh token created
\* by that failing call remains in the active-token index or the refresh-token index.
C39_FailedRefreshLeavesNothing ==
    [][\A t \in Threads :
          RefreshFails(t) =>
             /\ th[t].jti # 0 => th[t].jti \notin DOMAIN active_tokens'
             /\ th[t].rt # 0 => th[t].rt \notin DOMAIN refresh_tokens']_vars

----------------------------------------------------------------------------
(* Claims checked under SpecT *)

\* C10: every TokenContext create_access_token produced, for any requested expiry
\* (values above 3600 included) and any configured default expiry, has expires_in at
\* most 3600, and so has every entry of the active-token index in every reachable state.
C10_LifetimeCap ==
    /\ \A t \in jwts : t.exp - t.iat <= MaxAccessTokenExpiry
    /\ \A j \in DOMAIN active_tokens : active_tokens[j].expires_in <= MaxAccessTokenExpiry

\* An access token was requested with expires_in = 7200 and is in the index with
\* expires_in = 3600.
C10_Witness ==
    /\ last.op = "create_access_token"
    /\ last.arg = 7200
    /\ last.jti \in DOMAIN active_tokens
    /\ active_tokens[last.jti].expires_in = 3600

\* The step is a call of cleanup_expired_tokens.
SweepStep == last'.op = "cleanup" /\ now' = now

\* The entries of the two indices whose expiry time is still ahead of the clock.
UnexpiredAccess ==
    {j \in DOMAIN active_tokens : now < active_tokens[j].issued_at + active_tokens[j].expires_in}

UnexpiredRefresh == {r \in DOMAIN refresh_tokens : now < refresh_tokens[r].expires_at}

\* C30: sweep_expired removes from the active-token index and from the refresh-token
\* index exactly the entries whose expiry time has passed, leaves every unexpired
\* entry unchanged, and returns the number of entries it removed.
C30_SweepExact ==
    [][SweepStep =>
          /\ DOMAIN active_tokens' = UnexpiredAccess
          /\ DOMAIN refresh_tokens' = UnexpiredRefresh
          /\ \A j \in UnexpiredAccess : active_tokens'[j] = active_tokens[j]
          /\ \A r \in UnexpiredRefresh : refresh_tokens'[r] = refresh_tokens[r]
          /\ last'.arg = Cardinality(DOMAIN active_tokens \ UnexpiredAccess)
                           + Cardinality(DOMAIN refresh_tokens \ UnexpiredRefresh)]_vars

\* A sweep has removed an expired access token and kept an unexpired access token and
\* an unexpired refresh token.
C30_Witness ==
    /\ last.op = "cleanup"
    /\ last.arg >= 1
    /\ UnexpiredAccess # {}
    /\ UnexpiredRefresh # {}
    /\ \E t \in jwts : now >= t.exp /\ t.jti \notin DOMAIN active_tokens

\* A sweep has removed an access token and a refresh token, all that there were.
C30_WitnessBoth ==
    /\ last.op = "cleanup"
    /\ last.arg >= 2
    /\ next_rt > 1
    /\ refresh_tokens = <<>>
    /\ rt_used = {}
    /\ rotations = <<>>

----------------------------------------------------------------------------
(* Claims checked under SpecP *)

\* C19: for every well-formed verifier v, verify(v, derive_challenge(v, S256), S256) is
\* true, and verify(v, c, S256) is false for every challenge c that differs from
\* derive_challenge(v, S256).
C19_PkceRoundTrip ==
    /\ (last.op = "round_trip" /\ last.method = "S256") => last.result = "True"
    /\ (/\ last.op = "verify"
        /\ last.method = "S256"
        /\ validate_code_verifier(last.code_verifier) = "ok"
        /\ last.code_challenge # S256(last.code_verifier)) => last.result = "False"

\* The digest of a well-formed verifier with one character altered was presented
\* with that verifier and refused.
C19_Witness ==
    /\ last.op = "verify"
    /\ last.method = "S256"
    /\ last.code_verifier = "v1"
    /\ last.code_challenge = S256("v1") \o "x"
    /\ last.result = "False"

\* C20: verify returns false without raising when a well-formed verifier does not
\* match the challenge, and raises an error (rather than returning a boolean) when the
\* verifier is malformed: too short, too long, or with a character outside the
\* unreserved set.
C20_MalformedVerifierRaises ==
    /\ (/\ last.op = "verify"
        /\ validate_code_verifier(last.code_verifier) = "ok"
        /\ last.method = "S256"
        /\ last.code_challenge # S256(last.code_verifier)) => last.result = "False"
    /\ (/\ last.op = "verify"
        /\ last.code_verifier \in MalformedVerifiers) => last.result = "PKCEError"

====
